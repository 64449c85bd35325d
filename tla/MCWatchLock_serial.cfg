\* Processes start one after another; kills and exits at any point.
SPECIFICATION FairSpec
CONSTANTS
    p1 = p1
    p2 = p2
    p3 = p3
    pid1 = pid1
    pid2 = pid2
    Proc = {p1, p2, p3}
    Serve = {p1, p2}
    Pid = {pid1, pid2}
    PidOf <- ReusedPid
    NoFile = NoFile
    NoPid = NoPid
    StartsOverlap = FALSE
INVARIANTS
    TypeOK
    OneLoopUntilRelease
    LooperOwnsLock
PROPERTIES
    StaleLockReclaimed
    DeniedForALivePid
