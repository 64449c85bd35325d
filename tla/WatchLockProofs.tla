---------------------------- MODULE WatchLockProofs ----------------------------
(***************************************************************************)
(* Theorems about WatchLock: when no two processes start at the same time, *)
(* two processes run the loop at once only while one of them, a serve      *)
(* process that has released the lock, is on its way out, for any number   *)
(* of processes and pids, with kills and exits at any point.               *)
(***************************************************************************)
EXTENDS WatchLock, TLAPS

(* Two live processes never have the same pid.                             *)
PidsDistinct ==
    /\ \A p, q \in Proc : Alive(p) /\ Alive(q) /\ PidOf[p] = PidOf[q] => p = q
    /\ \A p \in Proc : Alive(p) => PidOf[p] \notin others

(* At most one process is starting.                                        *)
OneStarter ==
    \A p, q \in Proc : pc[p] \in Starting /\ pc[q] \in Starting => p = q

(* A process that created the file and has not written to it yet finds it  *)
(* in place.                                                               *)
WriterOwnsLock ==
    \A p \in Proc : pc[p] = "write" => lock # NoFile /\ lock.by = p

(* A starter about to remove the lock has seen that no one owns it, and    *)
(* one about to probe has read the pid of the process that does.           *)
StarterKnows ==
    \A p, q \in Proc : pc[q] \in Owning =>
        /\ pc[p] \notin {"remove", "recreate"}
        /\ pc[p] = "probe" => seen[p] = PidOf[q]

(* The inductive invariant: OneLoopUntilRelease alone does not say why a   *)
(* starter may not create a lock while another process runs the loop.      *)
IInv ==
    /\ TypeOK
    /\ PidsDistinct
    /\ OneStarter
    /\ LooperOwnsLock
    /\ WriterOwnsLock
    /\ StarterKnows

USE DEF Starting, Owning, Alive, GoTo

-----------------------------------------------------------------------------
LEMMA InitIInv == Init => IInv
  BY PidAssumption
  DEF Init, IInv, TypeOK, PidsDistinct, OneStarter, LooperOwnsLock,
      WriterOwnsLock, StarterKnows

(* Every step keeps the shape of the state, whether or not starts overlap. *)
LEMMA TypeStep == TypeOK /\ [Next]_vars => TypeOK'
  <1> SUFFICES ASSUME TypeOK, [Next]_vars
               PROVE  TypeOK'
    OBVIOUS
  <1> USE PidAssumption, NoFileAssumption DEF TypeOK, File
  <1>1. ASSUME NEW p \in Proc, Start(p)
        PROVE  TypeOK'
    BY <1>1 DEF Start
  <1>2. ASSUME NEW p \in Proc, TryCreate(p) \/ TryAgain(p)
        PROVE  TypeOK'
    BY <1>2 DEF TryCreate, TryAgain, CreateOr
  <1>3. ASSUME NEW p \in Proc, WritePid(p)
        PROVE  TypeOK'
    BY <1>3 DEF WritePid
  <1>4. ASSUME NEW p \in Proc, ReadPid(p)
        PROVE  TypeOK'
    BY <1>4 DEF ReadPid, ReadsStale
  <1>5. ASSUME NEW p \in Proc, Probe(p)
        PROVE  TypeOK'
    BY <1>5 DEF Probe
  <1>6. ASSUME NEW p \in Proc, Remove(p) \/ ReleaseRemove(p)
        PROVE  TypeOK'
    BY <1>6 DEF Remove, ReleaseRemove
  <1>7. ASSUME NEW p \in Proc, Exit(p) \/ ReleaseCheck(p) \/ End(p)
        PROVE  TypeOK'
    BY <1>7 DEF Exit, ReleaseCheck, End
  <1>8. ASSUME NEW p \in Proc, Crash(p)
        PROVE  TypeOK'
    BY <1>8 DEF Crash
  <1>9. ASSUME NEW pid \in Pid, OtherStarts(pid) \/ OtherEnds(pid)
        PROVE  TypeOK'
    BY <1>9 DEF OtherStarts, OtherEnds
  <1>10. CASE UNCHANGED vars
    BY <1>10 DEF vars
  <1>11. QED
    BY <1>1, <1>2, <1>3, <1>4, <1>5, <1>6, <1>7, <1>8, <1>9, <1>10
    DEF Next, Acquire

(* Type correctness, for any number of processes that start at any time.   *)
THEOREM TypeCorrect == Spec => []TypeOK
  <1>1. Init => TypeOK
    BY InitIInv DEF IInv
  <1>2. QED
    BY <1>1, TypeStep, PTL DEF Spec

-----------------------------------------------------------------------------
LEMMA StepIInv == ~ StartsOverlap /\ IInv /\ [Next]_vars => IInv'
  <1> SUFFICES ASSUME ~ StartsOverlap, IInv, [Next]_vars
               PROVE  IInv'
    OBVIOUS
  <1> DEFINE Rest == /\ PidsDistinct' /\ OneStarter' /\ LooperOwnsLock'
                     /\ WriterOwnsLock' /\ StarterKnows'
  <1>1. TypeOK /\ TypeOK'
    BY TypeStep DEF IInv
  <1> USE PidAssumption, NoFileAssumption
      DEF IInv, TypeOK, File, PidsDistinct, OneStarter, LooperOwnsLock,
          WriterOwnsLock, StarterKnows
  <1>2. ASSUME NEW p \in Proc, Start(p)
        PROVE  Rest
    BY <1>1, <1>2 DEF Start, InUse
  <1>3. ASSUME NEW p \in Proc, TryCreate(p) \/ TryAgain(p)
        PROVE  Rest
    BY <1>1, <1>3 DEF TryCreate, TryAgain, CreateOr
  <1>4. ASSUME NEW p \in Proc, WritePid(p)
        PROVE  Rest
    BY <1>1, <1>4 DEF WritePid
  <1>5. ASSUME NEW p \in Proc, ReadPid(p)
        PROVE  Rest
    BY <1>1, <1>5 DEF ReadPid, ReadsStale
  <1>6. ASSUME NEW p \in Proc, Probe(p)
        PROVE  Rest
    BY <1>1, <1>6 DEF Probe, PidAlive, InUse
  <1>7. ASSUME NEW p \in Proc, Remove(p)
        PROVE  Rest
    BY <1>1, <1>7 DEF Remove
  <1>8. ASSUME NEW p \in Proc, Exit(p) \/ End(p)
        PROVE  Rest
    BY <1>1, <1>8 DEF Exit, End
  <1>9. ASSUME NEW p \in Proc, ReleaseCheck(p) \/ ReleaseRemove(p)
        PROVE  Rest
    BY <1>1, <1>9 DEF ReleaseCheck, ReleaseRemove
  <1>10. ASSUME NEW p \in Proc, Crash(p)
         PROVE  Rest
    BY <1>1, <1>10 DEF Crash
  <1>11. ASSUME NEW pid \in Pid, OtherStarts(pid) \/ OtherEnds(pid)
         PROVE  Rest
    BY <1>1, <1>11 DEF OtherStarts, OtherEnds, InUse
  <1>12. CASE UNCHANGED vars
    BY <1>1, <1>12 DEF vars
  <1>13. Rest
    BY <1>2, <1>3, <1>4, <1>5, <1>6, <1>7, <1>8, <1>9, <1>10, <1>11, <1>12
    DEF Next, Acquire
  <1>14. QED
    BY <1>1, <1>13

(* When starts do not overlap, the process that runs the loop owns the     *)
(* lock until it removes it itself.                                        *)
THEOREM LooperOwnsLockAlways ==
    ASSUME ~ StartsOverlap
    PROVE  Spec => []LooperOwnsLock
  <1>1. IInv => LooperOwnsLock
    BY DEF IInv
  <1>2. IInv /\ [Next]_vars => IInv'
    BY StepIInv
  <1>3. QED
    BY InitIInv, <1>1, <1>2, PTL DEF Spec

(* When starts do not overlap, two processes run the loop at once only if  *)
(* one of them has released the lock and is about to be gone: the file     *)
(* names one creator.                                                      *)
THEOREM OneLoopUntilReleaseAlways ==
    ASSUME ~ StartsOverlap
    PROVE  Spec => []OneLoopUntilRelease
  <1>1. IInv => OneLoopUntilRelease
    BY DEF IInv, LooperOwnsLock, RunsLoop, OneLoopUntilRelease
  <1>2. IInv /\ [Next]_vars => IInv'
    BY StepIInv
  <1>3. QED
    BY InitIInv, <1>1, <1>2, PTL DEF Spec

(* When moreover all of them are watch processes, whose loop has ended     *)
(* before they release the lock, only one runs it: what the comment at     *)
(* scheduler.py:296-297 says holds under these two conditions.             *)
THEOREM OneLoopAmongWatchers ==
    ASSUME ~ StartsOverlap, Serve = {}
    PROVE  Spec => []OneLoop
  <1>1. IInv => OneLoop
    BY DEF IInv, LooperOwnsLock, RunsLoop, OneLoop
  <1>2. IInv /\ [Next]_vars => IInv'
    BY StepIInv
  <1>3. QED
    BY InitIInv, <1>1, <1>2, PTL DEF Spec

-----------------------------------------------------------------------------
(* No lock has the pid of a process that was turned away, or of one that   *)
(* has released its own.                                                   *)
DeniedHasNoLock ==
    \A p \in Proc :
        pc[p] \in {"denied", "released"} /\ lock # NoFile => lock.text # PidOf[p]

(* What a starter has read is still true when it acts on it: the lock it   *)
(* read can only be gone, a kev-pulse process with that pid still holds it *)
(* or has just released it, and no one puts a lock where it has removed    *)
(* one.                                                                    *)
StarterAlone ==
    \A p \in Proc :
        /\ pc[p] = "probe" =>
               /\ seen[p] # PidOf[p]
               /\ lock # NoFile => lock.text = seen[p]
               /\ \A q \in Proc :
                      Alive(q) /\ PidOf[q] = seen[p] => pc[q] \in Owning \cup {"released"}
        /\ pc[p] = "recreate" => lock = NoFile

DInv == DeniedHasNoLock /\ StarterAlone

LEMMA StepDInv ==
    ~ StartsOverlap /\ IInv /\ IInv' /\ DInv /\ [Next]_vars => DInv'
  <1> SUFFICES ASSUME ~ StartsOverlap, IInv, IInv', DInv, [Next]_vars
               PROVE  DInv'
    OBVIOUS
  <1> USE PidAssumption, NoFileAssumption
      DEF IInv, TypeOK, File, PidsDistinct, OneStarter, LooperOwnsLock,
          WriterOwnsLock, StarterKnows, DInv, DeniedHasNoLock, StarterAlone
  <1>1. ASSUME NEW p \in Proc, Start(p)
        PROVE  DInv'
    BY <1>1 DEF Start, InUse
  <1>2. ASSUME NEW p \in Proc, TryCreate(p) \/ TryAgain(p)
        PROVE  DInv'
    BY <1>2 DEF TryCreate, TryAgain, CreateOr
  <1>3. ASSUME NEW p \in Proc, WritePid(p)
        PROVE  DInv'
    BY <1>3 DEF WritePid
  <1>4. ASSUME NEW p \in Proc, ReadPid(p)
        PROVE  DInv'
    BY <1>4 DEF ReadPid, ReadsStale
  <1>5. ASSUME NEW p \in Proc, Probe(p)
        PROVE  DInv'
    BY <1>5 DEF Probe, PidAlive, InUse
  <1>6. ASSUME NEW p \in Proc, Remove(p) \/ ReleaseCheck(p) \/ ReleaseRemove(p)
        PROVE  DInv'
    BY <1>6 DEF Remove, ReleaseCheck, ReleaseRemove
  <1>7. ASSUME NEW p \in Proc, Exit(p) \/ End(p) \/ Crash(p)
        PROVE  DInv'
    BY <1>7 DEF Exit, End, Crash
  <1>8. ASSUME NEW pid \in Pid, OtherStarts(pid) \/ OtherEnds(pid)
        PROVE  DInv'
    BY <1>8 DEF OtherStarts, OtherEnds
  <1>9. CASE UNCHANGED vars
    BY <1>9 DEF vars
  <1>10. QED
    BY <1>1, <1>2, <1>3, <1>4, <1>5, <1>6, <1>7, <1>8, <1>9 DEF Next, Acquire

(* Whoever is turned away in this step has read a pid that is in use, by   *)
(* the holder of the lock or by a process without a part in the loop.      *)
DeniedNow ==
    \A p \in Proc :
        pc[p] # "denied" /\ pc'[p] = "denied" =>
            \/ seen[p] \in others
            \/ \E q \in Proc : /\ PidOf[q] = seen[p]
                               /\ pc[q] \in Owning \cup {"released"}

LEMMA StepDenied == IInv /\ DInv /\ [Next]_vars => [DeniedNow]_vars
  <1> SUFFICES ASSUME IInv, DInv, [Next]_vars
               PROVE  DeniedNow \/ UNCHANGED vars
    OBVIOUS
  <1> USE DEF IInv, TypeOK, DInv, StarterAlone, DeniedNow
  <1>1. ASSUME NEW p \in Proc, Probe(p)
        PROVE  DeniedNow
    BY <1>1 DEF Probe, PidAlive, InUse
  <1>2. ASSUME NEW p \in Proc, TryCreate(p) \/ TryAgain(p)
        PROVE  DeniedNow
    BY <1>2 DEF TryCreate, TryAgain, CreateOr
  <1>3. ASSUME NEW p \in Proc,
               Start(p) \/ WritePid(p) \/ ReadPid(p) \/ Remove(p) \/ Exit(p)
                   \/ ReleaseCheck(p) \/ ReleaseRemove(p) \/ End(p) \/ Crash(p)
        PROVE  DeniedNow
    BY <1>3
    DEF Start, WritePid, ReadPid, Remove, Exit, ReleaseCheck, ReleaseRemove, End, Crash
  <1>4. ASSUME NEW pid \in Pid, OtherStarts(pid) \/ OtherEnds(pid)
        PROVE  DeniedNow
    BY <1>4 DEF OtherStarts, OtherEnds
  <1>5. QED
    BY <1>1, <1>2, <1>3, <1>4 DEF Next, Acquire

(* When starts do not overlap, a process is turned away only for the pid   *)
(* of the lock's holder or of a live process without a part in the loop,   *)
(* whatever was left behind and whatever pids are reused.                  *)
THEOREM DeniedForALivePidAlways ==
    ASSUME ~ StartsOverlap
    PROVE  Spec => DeniedForALivePid
  <1>1. Init => DInv
    BY DEF Init, DInv, DeniedHasNoLock, StarterAlone
  <1>2. IInv /\ [Next]_vars => IInv'
    BY StepIInv
  <1>3. IInv /\ IInv' /\ DInv /\ [Next]_vars => DInv'
    BY StepDInv
  <1>4. [][DeniedNow]_vars => DeniedForALivePid
    BY DEF DeniedNow, DeniedForALivePid
  <1>5. QED
    BY InitIInv, <1>1, <1>2, <1>3, <1>4, StepDenied, PTL DEF Spec
===============================================================================
