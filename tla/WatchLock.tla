------------------------------- MODULE WatchLock -------------------------------
(***************************************************************************)
(* The single-instance guard of the polling loop (scheduler.py):           *)
(* _acquire_watch_lock, _pid_alive, _release_watch_lock and their use in   *)
(* run_forever.  The processes are the kev-pulse processes of one host     *)
(* over one state_db_path: "watch" processes, which run the loop on their  *)
(* main thread, and "serve" processes with autonomous_in_serve, which run  *)
(* it on a daemon thread that lives as long as the process.  What they     *)
(* share is one file, the operating system makes each system call on it    *)
(* atomic, and nothing else is.  The host's other processes matter only    *)
(* for the pids they have: serve processes without the loop are among them.*)
(***************************************************************************)
EXTENDS Integers

CONSTANTS
    Proc,          \* slots: each runs one process after another
    Serve,         \* the slots whose processes are "serve" processes
    Pid,
    PidOf,         \* the pid of a slot's processes; a pid may be used again
    NoFile, NoPid,
    StartsOverlap  \* TRUE: a process may start while another is starting

ASSUME PidAssumption ==
    /\ PidOf \in [Proc -> Pid]
    /\ NoPid \notin Pid

ASSUME ServeAssumption == Serve \subseteq Proc

ASSUME OverlapAssumption == StartsOverlap \in BOOLEAN

\* The lock file: the process that created it, and the text that is in it.
File == [by : Proc, text : Pid \cup {NoPid}]

ASSUME NoFileAssumption == NoFile \notin File

VARIABLES
    lock,   \* the file at lock_path, or NoFile
    pc,     \* where each process stands
    seen,   \* existing_pid, when it is another process's
    others  \* the pids of live processes that have no part in the loop

vars == <<lock, pc, seen, others>>

Starting == {"create", "read", "probe", "remove", "recreate", "write"}

\* From the pid in the file to the removal of the file.
Owning == {"loop", "release_check", "release_remove"}

TypeOK ==
    /\ lock \in File \cup {NoFile}
    /\ pc \in [Proc -> {"down", "denied", "released"} \cup Starting \cup Owning]
    /\ seen \in [Proc -> Pid \cup {NoPid}]
    /\ \A p \in Proc : pc[p] = "probe" <=> seen[p] \in Pid
    /\ others \subseteq Pid

Init ==
    /\ lock = NoFile
    /\ pc = [p \in Proc |-> "down"]
    /\ seen = [p \in Proc |-> NoPid]
    /\ others = {}

Alive(p) == pc[p] # "down"

GoTo(p, label) == pc' = [pc EXCEPT ![p] = label]

\* While the exit handler runs, the loop of a watch process has ended; the
\* daemon thread of a serve process runs on until the process is gone.
RunsLoop(p) ==
    \/ pc[p] = "loop"
    \/ p \in Serve /\ pc[p] \in {"release_check", "release_remove", "released"}

InUse(pid) == pid \in others \/ \E q \in Proc : Alive(q) /\ PidOf[q] = pid

\* Mutant: no probe, a lock of another pid is taken for stale.
NobodyAlive(pid) == FALSE

\* Mutant: any pid in the file counts.
EveryoneAlive(pid) == TRUE

\* _pid_alive, among processes that may signal each other: a signal reaches
\* any live process, whatever it runs.
PidAlive(pid) == InUse(pid)

-----------------------------------------------------------------------------
\* The host's other processes come and go.
OtherStarts(pid) ==
    /\ ~ InUse(pid)
    /\ others' = others \cup {pid}
    /\ UNCHANGED <<lock, pc, seen>>

OtherEnds(pid) ==
    /\ pid \in others
    /\ others' = others \ {pid}
    /\ UNCHANGED <<lock, pc, seen>>

\* run_forever begins.  The operating system gives a live pid to no one else.
Start(p) ==
    /\ pc[p] = "down"
    /\ ~ InUse(PidOf[p])
    /\ StartsOverlap \/ \A q \in Proc : pc[q] \notin Starting
    /\ GoTo(p, "create")
    /\ UNCHANGED <<lock, seen, others>>

\* os.open with O_CREAT | O_EXCL: creates the file, empty, or fails.
CreateOr(p, otherwise) ==
    /\ IF lock = NoFile
       THEN lock' = [by |-> p, text |-> NoPid] /\ GoTo(p, "write")
       ELSE GoTo(p, otherwise) /\ UNCHANGED lock
    /\ UNCHANGED <<seen, others>>

TryCreate(p) == pc[p] = "create" /\ CreateOr(p, "read")

TryAgain(p) == pc[p] = "recreate" /\ CreateOr(p, "denied")

\* Mutant: the text never reaches the file.
LoopWithoutPid(p) ==
    /\ pc[p] = "write"
    /\ GoTo(p, "loop")
    /\ UNCHANGED <<lock, seen, others>>

\* The pid is written through the descriptor, so it reaches the file this
\* process created, whether or not that one is still at lock_path.
WritePid(p) ==
    /\ pc[p] = "write"
    /\ lock' = IF lock # NoFile /\ lock.by = p
               THEN [lock EXCEPT !.text = PidOf[p]] ELSE lock
    /\ GoTo(p, "loop")
    /\ UNCHANGED <<seen, others>>

\* Mutant: an empty file is not recognised as such.
ReadsOwnPid(p) == lock = NoFile \/ lock.text = PidOf[p]

\* Mutant: the starter's own pid counts as a live process.
ReadsNoPid(p) == lock = NoFile \/ lock.text = NoPid

\* A file that is gone, empty, or holds this process's own pid is stale.
ReadsStale(p) == lock = NoFile \/ lock.text \in {NoPid, PidOf[p]}

ReadPid(p) ==
    /\ pc[p] = "read"
    /\ IF ReadsStale(p)
       THEN GoTo(p, "remove") /\ UNCHANGED seen
       ELSE GoTo(p, "probe") /\ seen' = [seen EXCEPT ![p] = lock.text]
    /\ UNCHANGED <<lock, others>>

Probe(p) ==
    /\ pc[p] = "probe"
    /\ GoTo(p, IF PidAlive(seen[p]) THEN "denied" ELSE "remove")
    /\ seen' = [seen EXCEPT ![p] = NoPid]
    /\ UNCHANGED <<lock, others>>

\* os.remove takes whatever is at lock_path by now.
Remove(p) ==
    /\ pc[p] = "remove"
    /\ lock' = NoFile
    /\ GoTo(p, "recreate")
    /\ UNCHANGED <<seen, others>>

-----------------------------------------------------------------------------
\* The process begins to end normally.  The atexit handler is registered only
\* by a process that created the file, and runs on the main thread.
Exit(p) ==
    /\ pc[p] = "loop"
    /\ GoTo(p, "release_check")
    /\ UNCHANGED <<lock, seen, others>>

ReleaseCheck(p) ==
    /\ pc[p] = "release_check"
    /\ GoTo(p, IF lock # NoFile /\ lock.text = PidOf[p]
               THEN "release_remove" ELSE "released")
    /\ UNCHANGED <<lock, seen, others>>

ReleaseRemove(p) ==
    /\ pc[p] = "release_remove"
    /\ lock' = NoFile
    /\ GoTo(p, "released")
    /\ UNCHANGED <<seen, others>>

\* The process is gone, and with it a daemon thread.
End(p) ==
    /\ pc[p] \in {"denied", "released"}
    /\ GoTo(p, "down")
    /\ UNCHANGED <<lock, seen, others>>

\* Killed, at any point, or a serve process that ends while its thread is
\* still at the lock: the file stays as it is.
Crash(p) ==
    /\ Alive(p)
    /\ GoTo(p, "down")
    /\ seen' = [seen EXCEPT ![p] = NoPid]
    /\ UNCHANGED <<lock, others>>

Acquire(p) ==
    TryCreate(p) \/ WritePid(p) \/ ReadPid(p) \/ Probe(p) \/ Remove(p) \/ TryAgain(p)

Next ==
    \/ \E p \in Proc :
           \/ Start(p) \/ Acquire(p)
           \/ Exit(p) \/ ReleaseCheck(p) \/ ReleaseRemove(p) \/ End(p)
           \/ Crash(p)
    \/ \E pid \in Pid : OtherStarts(pid) \/ OtherEnds(pid)

Spec == Init /\ [][Next]_vars

(* The code between two system calls runs on; starts, exits and kills are  *)
(* up to others.                                                           *)
FairSpec == Spec /\ \A p \in Proc : WF_vars(Acquire(p))

-----------------------------------------------------------------------------
(* scheduler.py:296-297 "only one live process ever runs the loop".        *)
OneLoop == \A p, q \in Proc : RunsLoop(p) /\ RunsLoop(q) => p = q

(* What the lock ensures instead.  Two processes run the loop at once only *)
(* if one of them is a serve process that has given the lock up on its way *)
(* out and has not gone yet: no starter gets past a loop, neither one in   *)
(* its cycles nor one whose process has begun to exit.                     *)
OneLoopUntilRelease ==
    \A p, q \in Proc :
        RunsLoop(p) /\ RunsLoop(q) /\ p # q => "released" \in {pc[p], pc[q]}

(* The process that runs the loop owns the file at lock_path and its pid   *)
(* is in it, up to the moment it removes it: no starter takes it away, and *)
(* an exit never removes another process's lock.                           *)
LooperOwnsLock ==
    \A p \in Proc :
        pc[p] \in Owning =>
            lock # NoFile /\ lock.by = p /\ lock.text = PidOf[p]

\* The file is a leftover: no live process has the pid in it, or it is empty
\* and its creator is not there to write one.
Stale ==
    /\ lock # NoFile
    /\ IF lock.text = NoPid THEN pc[lock.by] # "write" ELSE ~ InUse(lock.text)

(* A lock left behind by a kill at any point, even between the creation    *)
(* and the pid, and even when its pid is by now the starter's own, keeps   *)
(* out the next process that starts in one case only: before it probes the *)
(* pid the operating system has given it to a process that has nothing to  *)
(* do with the loop.  Otherwise the starter runs the loop, unless it is    *)
(* killed itself.                                                          *)
StaleLockReclaimed ==
    \A p \in Proc :
        (pc[p] = "create" /\ lock # NoFile /\ (Stale \/ lock.text = PidOf[p]))
            ~> \/ pc[p] \in {"loop", "down"}
               \/ pc[p] = "denied" /\ lock # NoFile /\ lock.text \in others

(* A process is turned away for the pid it read in the lock, and only when *)
(* that pid is at this moment the pid of the process that holds the lock   *)
(* or has just released it on its way out, or else of a live process that  *)
(* has no part in the loop: never for an empty file, for a dead process,   *)
(* for itself, or for another process that is starting or was turned away. *)
(* It never tries again, so a wrong denial leaves nobody polling.          *)
DeniedForALivePid ==
    [][\A p \in Proc :
           pc[p] # "denied" /\ pc'[p] = "denied" =>
               \/ seen[p] \in others
               \/ \E q \in Proc : /\ PidOf[q] = seen[p]
                                  /\ pc[q] \in Owning \cup {"released"}]_vars
===============================================================================
