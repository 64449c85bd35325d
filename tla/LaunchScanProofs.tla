--------------------------- MODULE LaunchScanProofs ---------------------------
(***************************************************************************)
(* Theorems about the scans that LaunchPath starts, for any number of      *)
(* actors, backends and plans, and calls that may fail anywhere: each scan *)
(* is accounted for, is started once by an actor, is what its audit row    *)
(* says, and was admitted when nobody approved it.                         *)
(***************************************************************************)
EXTENDS LaunchProofs

USE DEF At, GoTo, End, ScanIds

(* Two rows of one plan; only the flag may differ.                         *)
SamePlan(row, other) ==
    /\ row.match = other.match /\ row.backend = other.backend /\ row.tags = other.tags

(* A drawn id is free and nobody else's; a saved one has the caller's row. *)
PlansInv ==
    \A a \in Actor :
        /\ At(a, "save_plan") =>
               /\ scan_plans[call[a].plan] = NoPlan
               /\ \A d \in Actor : d # a => call[d].plan # call[a].plan
        /\ call[a].pc \notin {"idle", "save_plan"} =>
               SamePlan(call[a].row, scan_plans[call[a].plan])

(* What a loop may do by itself.                                           *)
LoopsInv ==
    \A a \in Actor \ Mcp :
        /\ ~ At(a, "idle") => call[a].row.backend = primary_backend
        /\ At(a, "launch_scan") => ~ dry_run /\ OnAllowList(a)

(* A scan is of a saved plan, at its backend and within its tags.          *)
ScansInv ==
    /\ \A b \in Backend : Len(scans[b]) <= MaxScans
    /\ \A s \in AllScans :
        /\ scan_plans[ScanAt(s).plan] # NoPlan
        /\ s[1] = scan_plans[ScanAt(s).plan].backend
        /\ ScanAt(s).tags # {} /\ ScanAt(s).tags \subseteq scan_plans[ScanAt(s).plan].tags
        /\ ScanAt(s).at <= now

(* The scan a call has started is its own.                                 *)
OwnScan(a) ==
    LET s == <<call[a].row.backend, call[a].scan>>
    IN  s \in AllScans /\ ScanAt(s).by = a /\ ScanAt(s).plan = call[a].plan

StartedInv ==
    \A a \in Actor :
        /\ call[a].pc \in Started => OwnScan(a)
        /\ At(a, "audit_launched") => scan_plans[call[a].plan].consumed

(* A call on its way to launch a plan is the actor's first with it.        *)
FirstInv ==
    \A a \in Actor : call[a].pc \in {"evaluate", "launch_scan"} =>
        \A s \in AllScans \ orphans :
            ~ (ScanAt(s).by = a /\ ScanAt(s).plan = call[a].plan)

(* No row is of the scan of a call that has still to record it.            *)
UnrecordedInv ==
    \A a \in Actor : call[a].pc \in Started =>
        ~ Recorded(<<call[a].row.backend, call[a].scan>>)

IInv ==
    /\ TypeOK /\ PlansInv /\ LoopsInv /\ ScansInv /\ StartedInv
    /\ FirstInv /\ UnrecordedInv
    /\ EveryScanAccounted /\ LaunchedRowsTrue /\ OncePerActor /\ UnattendedScansAdmitted

-----------------------------------------------------------------------------
LEMMA InitHolds == Init => IInv
  <1> SUFFICES ASSUME Init
               PROVE  IInv
    OBVIOUS
  <1>1. TypeOK
    BY InitType
  <1>2. \A a \in Actor : call[a].pc = "idle"
    BY DEF Init, Idle, CallOf
  <1>3. AllScans = {}
    BY DEF Init, AllScans
  <1>4. launched = <<>> /\ \A b \in Backend : Len(scans[b]) = 0
    BY DEF Init
  <1>5. PlansInv /\ LoopsInv /\ StartedInv /\ FirstInv /\ UnrecordedInv
    BY <1>2 DEF PlansInv, LoopsInv, StartedInv, FirstInv, UnrecordedInv, Started
  <1>6. ScansInv /\ EveryScanAccounted /\ OncePerActor /\ UnattendedScansAdmitted
    BY <1>3, <1>4, LimitAssumption
    DEF ScansInv, EveryScanAccounted, OncePerActor, UnattendedScansAdmitted
  <1>7. LaunchedRowsTrue
    BY <1>4 DEF LaunchedRowsTrue
  <1>8. QED
    BY <1>1, <1>5, <1>6, <1>7 DEF IInv

(* How a call moves on, and how it ends.                                   *)
LEMMA GoToFacts ==
    ASSUME TypeOK, NEW a \in Actor, NEW label, GoTo(a, label)
    PROVE  /\ call'[a].pc = label /\ call'[a].plan = call[a].plan
           /\ call'[a].row = call[a].row /\ call'[a].scan = call[a].scan
           /\ \A d \in Actor : d # a => call'[d] = call[d]
  BY DEF TypeOK, Call

LEMMA EndFacts ==
    ASSUME TypeOK, NEW a \in Actor, End(a)
    PROVE  /\ call'[a].pc = "idle" /\ call'[a].plan = NoPlan
           /\ \A d \in Actor : d # a => call'[d] = call[d]
  BY DEF TypeOK, Idle, CallOf

LEMMA BeginFacts ==
    ASSUME TypeOK, NEW a \in Actor, NEW label, NEW p, NEW row,
           call' = [call EXCEPT ![a] = CallOf(label, p, row)]
    PROVE  /\ call'[a].pc = label /\ call'[a].plan = p /\ call'[a].row = row
           /\ \A d \in Actor : d # a => call'[d] = call[d]
  BY DEF TypeOK, CallOf

LEMMA ScanType ==
    ASSUME TypeOK, NEW s \in AllScans
    PROVE  /\ s[1] \in Backend /\ s[2] \in 1..Len(scans[s[1]])
           /\ s = <<s[1], s[2]>>
           /\ ScanAt(s) \in Scan
           /\ ScanAt(s).plan \in Plan /\ ScanAt(s).at \in Nat /\ ScanAt(s).by \in Actor
  <1>1. s[1] \in Backend /\ s[2] \in DOMAIN scans[s[1]] /\ s = <<s[1], s[2]>>
    BY DEF AllScans
  <1>2. scans[s[1]] \in Seq(Scan)
    BY <1>1 DEF TypeOK
  <1>3. ScanAt(s) \in Scan
    BY <1>1, <1>2 DEF ScanAt
  <1>4. QED
    BY <1>1, <1>2, <1>3 DEF Scan

LEMMA ScansStay ==
    ASSUME scans' = scans
    PROVE  AllScans' = AllScans /\ \A s : ScanAt(s)' = ScanAt(s)
  BY DEF AllScans, ScanAt

(* A step of a call that neither has a scan nor gets one, and that changes *)
(* no plan.                                                                *)
Moves(a) ==
    /\ scan_plans' = scan_plans /\ launched' = launched /\ scans' = scans
    /\ orphans' = orphans /\ dry_run' = dry_run /\ now' = now
    /\ \A d \in Actor : d # a => call'[d] = call[d]
    /\ call[a].pc \notin Started /\ call'[a].pc \notin Started

(* What the call may be doing after such a step.                           *)
MayDo(a) ==
    /\ call'[a].pc = "save_plan" =>
           /\ scan_plans[call'[a].plan] = NoPlan
           /\ \A d \in Actor : d # a => call[d].plan # call'[a].plan
    /\ \A d \in Actor : d # a /\ call[d].pc = "save_plan" => call'[a].plan # call[d].plan
    /\ call'[a].pc \notin {"idle", "save_plan"} =>
           SamePlan(call'[a].row, scan_plans[call'[a].plan])
    /\ a \notin Mcp =>
           /\ call'[a].pc # "idle" => call'[a].row.backend = primary_backend
           /\ call'[a].pc = "launch_scan" =>
                  ~ dry_run /\ call'[a].row.tags \cap auto_scan_allow_tags # {}
    /\ call'[a].pc \in {"evaluate", "launch_scan"} =>
           \A s \in AllScans \ orphans :
               ~ (ScanAt(s).by = a /\ ScanAt(s).plan = call'[a].plan)

LEMMA MovesKeep ==
    ASSUME IInv, TypeOK', NEW a \in Actor, Moves(a), MayDo(a)
    PROVE  IInv'
  <1>1. AllScans' = AllScans /\ \A s : ScanAt(s)' = ScanAt(s)
    BY ScansStay DEF Moves
  <1>2. \A s : Recorded(s)' = Recorded(s)
    BY DEF Recorded, Moves
  <1>3. PlansInv'
    BY DEF IInv, PlansInv, Moves, MayDo, SamePlan
  <1>4. LoopsInv'
    BY DEF IInv, LoopsInv, Moves, MayDo, OnAllowList
  <1>5. ScansInv'
    BY <1>1 DEF IInv, ScansInv, Moves
  <1>6. StartedInv' /\ UnrecordedInv'
    BY <1>1, <1>2 DEF IInv, StartedInv, UnrecordedInv, OwnScan, Moves, Started
  <1>7. FirstInv'
    BY <1>1 DEF IInv, FirstInv, Moves, MayDo
  <1>8. EveryScanAccounted'
    BY <1>1, <1>2 DEF IInv, EveryScanAccounted, StartedBy, Moves
  <1>9. LaunchedRowsTrue'
    BY <1>1 DEF IInv, LaunchedRowsTrue, Moves
  <1>10. OncePerActor' /\ UnattendedScansAdmitted'
    BY <1>1 DEF IInv, OncePerActor, UnattendedScansAdmitted, Moves
  <1>11. QED
    BY <1>3, <1>4, <1>5, <1>6, <1>7, <1>8, <1>9, <1>10 DEF IInv

-----------------------------------------------------------------------------
(* propose_scan, and launch_targeted_scan until the scan is started.       *)

LEMMA ProposeKeeps ==
    ASSUME IInv, TypeOK', NEW a \in Actor, NEW m \in Match, NEW b \in Backend,
           NEW tags \in SUBSET Tag, NEW p \in Plan, Propose(a, m, b, tags, p)
    PROVE  IInv'
  <1> DEFINE row == [match |-> m, backend |-> b, tags |-> tags, consumed |-> FALSE]
  <1>1. /\ call'[a].pc = "save_plan" /\ call'[a].plan = p /\ call'[a].row = row
        /\ \A d \in Actor : d # a => call'[d] = call[d]
    BY BeginFacts DEF Propose, IInv
  <1>2. Moves(a)
    BY <1>1 DEF Propose, Moves, Started, tables, world
  <1>3. MayDo(a)
    <2>1. call'[a].row.backend = b
      BY <1>1
    <2>2. scan_plans[p] = NoPlan /\ \A d \in Actor : call[d].plan # p
      BY DEF Propose, FreshPlan
    <2>3. a \notin Mcp => b = primary_backend
      BY DEF Propose
    <2>4. QED
      BY <1>1, <2>1, <2>2, <2>3 DEF MayDo
  <1>4. QED
    BY <1>2, <1>3, MovesKeep

(* A call that ends takes nothing from another.                            *)
LEMMA EndKeeps ==
    ASSUME IInv, TypeOK', NEW a \in Actor, End(a), call[a].pc \notin Started,
           scan_plans' = scan_plans, launched' = launched, UNCHANGED <<world, orphans>>
    PROVE  IInv'
  <1>1. /\ call'[a].pc = "idle" /\ call'[a].plan = NoPlan
        /\ \A d \in Actor : d # a => call'[d] = call[d]
    BY EndFacts DEF IInv
  <1>2. \A d \in Actor : call[d].pc = "save_plan" => call[d].plan # NoPlan
    BY DEF IInv, TypeOK
  <1>3. Moves(a) /\ MayDo(a)
    BY <1>1, <1>2 DEF Moves, MayDo, Started, world
  <1>4. QED
    BY <1>3, MovesKeep

(* A call that goes on to something it may do holds its plan and row.      *)
LEMMA GoOnKeeps ==
    ASSUME IInv, TypeOK', NEW a \in Actor, NEW label, GoTo(a, label),
           call[a].pc \notin Started \cup {"idle", "save_plan"},
           label \notin Started \cup {"idle", "save_plan", "evaluate"},
           scan_plans' = scan_plans, launched' = launched, UNCHANGED <<world, orphans>>,
           label = "launch_scan" =>
               /\ call[a].pc = "evaluate"
               /\ a \notin Mcp => ~ dry_run /\ OnAllowList(a)
    PROVE  IInv'
  <1>1. /\ call'[a].pc = label /\ call'[a].plan = call[a].plan
        /\ call'[a].row = call[a].row
        /\ \A d \in Actor : d # a => call'[d] = call[d]
    BY GoToFacts DEF IInv
  <1>2. Moves(a)
    BY <1>1 DEF Moves, world
  <1>3. MayDo(a)
    BY <1>1 DEF MayDo, IInv, PlansInv, LoopsInv, FirstInv, OnAllowList
  <1>4. QED
    BY <1>2, <1>3, MovesKeep

LEMMA AuditProposedKeeps ==
    ASSUME IInv, TypeOK', NEW a \in Actor, AuditProposed(a)
    PROVE  IInv'
  BY EndKeeps, GoOnKeeps DEF AuditProposed, Started

LEMMA GetScanPlanKeeps ==
    ASSUME IInv, TypeOK', NEW a \in Actor, NEW p \in Plan, GetScanPlan(a, p)
    PROVE  IInv'
  <1>1. /\ call[a].pc \in {"idle", "get_plan"} /\ scan_plans[p] # NoPlan
        /\ UNCHANGED <<tables, world, orphans>>
        /\ call[a].pc = "idle" => a \in Mcp
        /\ call[a].pc = "get_plan" => p = call[a].plan
    BY DEF GetScanPlan
  <1>2. CASE scan_plans[p].consumed
    BY <1>1, <1>2, EndKeeps DEF GetScanPlan, Started, tables
  <1>3. CASE ~ scan_plans[p].consumed
    <2>1. /\ call'[a].pc = "evaluate" /\ call'[a].plan = p /\ call'[a].row = scan_plans[p]
          /\ \A d \in Actor : d # a => call'[d] = call[d]
      BY <1>3, BeginFacts DEF GetScanPlan, IInv
    <2>2. Moves(a)
      BY <1>1, <2>1 DEF Moves, Started, tables, world
    <2>3. \A s \in AllScans \ orphans : ~ (ScanAt(s).by = a /\ ScanAt(s).plan = p)
      <3>1. SUFFICES ASSUME NEW s \in AllScans \ orphans, ScanAt(s).by = a, ScanAt(s).plan = p
                     PROVE  FALSE
        OBVIOUS
      <3>2. PICK d \in Actor : StartedBy(d, s)
        BY <1>3, <3>1 DEF IInv, EveryScanAccounted
      <3>3. s = <<call[d].row.backend, call[d].scan>>
        BY <3>2 DEF StartedBy, AllScans
      <3>4. d = a
        BY <3>1, <3>2, <3>3 DEF IInv, StartedInv, OwnScan, StartedBy
      <3>5. QED
        BY <1>1, <3>2, <3>4 DEF StartedBy, Started
    <2>4. a \notin Mcp => scan_plans[p].backend = primary_backend
      BY <1>1 DEF IInv, PlansInv, LoopsInv, SamePlan
    <2>5. MayDo(a)
      BY <1>1, <2>1, <2>3, <2>4 DEF MayDo, IInv, PlansInv, SamePlan
    <2>6. QED
      BY <2>2, <2>5, MovesKeep
  <1>4. QED
    BY <1>2, <1>3

LEMMA GateKeeps ==
    ASSUME IInv, TypeOK', NEW a \in Actor,
           Approve(a) \/ Refuse(a) \/ AuditRefused(a) \/ RefuseUnscoped(a)
    PROVE  IInv'
  <1>1. CASE Approve(a)
    BY <1>1, GoOnKeeps DEF Approve, Admits, Started, tables
  <1>2. CASE Refuse(a)
    <2>1. GoTo(a, "audit_dry_run") \/ GoTo(a, "audit_rejected")
      BY <1>2 DEF Refuse
    <2>2. QED
      BY <1>2, <2>1, GoOnKeeps DEF Refuse, Started, tables
  <1>3. CASE AuditRefused(a) \/ RefuseUnscoped(a)
    BY <1>3, EndKeeps DEF AuditRefused, RefuseUnscoped, Started, tables
  <1>4. QED
    BY <1>1, <1>2, <1>3

(* The row is saved under an id that no other call and no scan has.        *)
LEMMA SaveKeeps ==
    ASSUME IInv, TypeOK', NEW a \in Actor, SaveScanPlan(a)
    PROVE  IInv'
  <1>1. /\ call'[a].pc = "audit_proposed" /\ call'[a].plan = call[a].plan
        /\ call'[a].row = call[a].row
        /\ \A d \in Actor : d # a => call'[d] = call[d]
    BY GoToFacts DEF IInv, SaveScanPlan
  <1>2. /\ call[a].pc = "save_plan" /\ call[a].plan \in Plan
        /\ scan_plans[call[a].plan] = NoPlan
        /\ \A d \in Actor : d # a => call[d].plan # call[a].plan
        /\ scans' = scans /\ orphans' = orphans /\ launched' = launched
        /\ dry_run' = dry_run /\ now' = now
    BY CallFacts DEF IInv, PlansInv, SaveScanPlan, world
  <1>3. /\ scan_plans'[call[a].plan] = call[a].row
        /\ \A p \in Plan : p # call[a].plan => scan_plans'[p] = scan_plans[p]
    BY <1>2 DEF SaveScanPlan, IInv, TypeOK
  <1>4. AllScans' = AllScans /\ \A s : ScanAt(s)' = ScanAt(s)
    BY <1>2, ScansStay
  <1>5. \A s \in AllScans : ScanAt(s).plan \in Plan
    BY ScanType DEF IInv
  <1>6. \A s \in AllScans : scan_plans'[ScanAt(s).plan] = scan_plans[ScanAt(s).plan]
    BY <1>2, <1>3, <1>5 DEF IInv, ScansInv
  <1>7. \A s : Recorded(s)' = Recorded(s)
    BY <1>2 DEF Recorded
  <1>8. PlansInv'
    <2>1. \A d \in Actor : d # a /\ call[d].pc # "idle" =>
              scan_plans'[call[d].plan] = scan_plans[call[d].plan]
      BY <1>2, <1>3, CallFacts DEF IInv
    <2>2. QED
      BY <1>1, <1>2, <1>3, <2>1 DEF IInv, PlansInv, SamePlan
  <1>9. LoopsInv'
    BY <1>1, <1>2 DEF IInv, LoopsInv, OnAllowList
  <1>10. ScansInv'
    BY <1>2, <1>4, <1>6 DEF IInv, ScansInv
  <1>11. StartedInv'
    <2>1. \A d \in Actor : call'[d].pc \in Started =>
              d # a /\ scan_plans'[call[d].plan] = scan_plans[call[d].plan]
      BY <1>1, <1>2, <1>3, CallFacts DEF IInv, Started
    <2>2. QED
      BY <1>1, <1>4, <2>1 DEF IInv, StartedInv, OwnScan, Started
  <1>12. FirstInv' /\ UnrecordedInv'
    BY <1>1, <1>2, <1>4, <1>7 DEF IInv, FirstInv, UnrecordedInv, Started
  <1>13. EveryScanAccounted'
    <2>1. \A s \in AllScans, d \in Actor : StartedBy(d, s) => StartedBy(d, s)'
      BY <1>1, <1>2 DEF StartedBy, Started
    <2>2. QED
      BY <1>2, <1>4, <1>6, <1>7, <2>1 DEF IInv, EveryScanAccounted
  <1>14. LaunchedRowsTrue'
    BY <1>2, <1>4, <1>6 DEF IInv, LaunchedRowsTrue
  <1>15. OncePerActor' /\ UnattendedScansAdmitted'
    BY <1>2, <1>4, <1>6 DEF IInv, OncePerActor, UnattendedScansAdmitted
  <1>16. QED
    BY <1>8, <1>9, <1>10, <1>11, <1>12, <1>13, <1>14, <1>15 DEF IInv

-----------------------------------------------------------------------------
(* The scan starts, is recorded, or is left behind by a call that dies.    *)

(* The scan that is started is a new one, and the others stay.             *)
LEMMA ScanAdded ==
    ASSUME IInv, NEW a \in Actor, NEW tags \in SUBSET Tag, StartScan(a, tags)
    PROVE  \E s0 \in Backend \X (1..MaxScans) :
               /\ s0 = <<call'[a].row.backend, call'[a].scan>>
               /\ s0[1] = call[a].row.backend
               /\ AllScans' = AllScans \cup {s0} /\ s0 \notin AllScans
               /\ \A s \in AllScans : ScanAt(s)' = ScanAt(s)
               /\ ScanAt(s0)' = [plan |-> call[a].plan, tags |-> tags, at |-> now, by |-> a]
               /\ \A c \in Backend : Len(scans'[c]) <= MaxScans
  <1> DEFINE b == call[a].row.backend
             n == Len(scans[b]) + 1
             run == [plan |-> call[a].plan, tags |-> tags, at |-> now, by |-> a]
  <1>0. /\ call[a].plan \in Plan /\ b \in Backend /\ call[a].row.tags \in SUBSET Tag
        /\ call[a].pc = "launch_scan" /\ scan_plans[call[a].plan] # NoPlan
        /\ SamePlan(call[a].row, scan_plans[call[a].plan])
    BY CallFacts DEF IInv, TypeOK, PlansInv, StartScan
  <1>1. /\ tags \subseteq call[a].row.tags /\ tags # {} /\ Len(scans[b]) < MaxScans
        /\ scans' = [scans EXCEPT ![b] = Append(scans[b], run)]
        /\ scan_plans' = scan_plans /\ launched' = launched /\ orphans' = orphans
        /\ dry_run' = dry_run /\ now' = now
    BY <1>0 DEF StartScan, LaunchBackend, IInv, TypeOK, tables
  <1>2. /\ call'[a].pc = "mark_consumed" /\ call'[a].scan = n
        /\ call'[a].plan = call[a].plan /\ call'[a].row = call[a].row
        /\ \A d \in Actor : d # a => call'[d] = call[d]
    BY DEF StartScan, LaunchBackend, IInv, TypeOK, Call
  <1>3. /\ scans[b] \in Seq(Scan) /\ Len(scans[b]) \in Nat /\ n \in 1..MaxScans
        /\ \A c \in Backend : c # b => scans'[c] = scans[c]
        /\ scans'[b] = Append(scans[b], run)
    BY <1>0, <1>1, LimitAssumption DEF IInv, TypeOK
  <1>run. run \in Scan
    BY <1>0, LimitAssumption DEF Scan, IInv, TypeOK
  <1>4. /\ DOMAIN scans'[b] = 1..n /\ Len(scans'[b]) = n
        /\ DOMAIN scans[b] = 1..(n - 1)
        /\ scans'[b][n] = run
        /\ \A i \in 1..(n - 1) : scans'[b][i] = scans[b][i]
    <2>1. PICK list \in Seq(Scan) : list = scans[b]
      BY <1>3
    <2> HIDE DEF run
    <2>2. /\ DOMAIN Append(list, run) = 1..(Len(list) + 1)
          /\ Len(Append(list, run)) = Len(list) + 1
          /\ DOMAIN list = 1..Len(list) /\ Len(list) \in Nat
          /\ Append(list, run)[Len(list) + 1] = run
          /\ \A i \in 1..Len(list) : Append(list, run)[i] = list[i]
      BY <1>run
    <2>3. QED
      BY <1>3, <2>1, <2>2
  <1> HIDE DEF run, n, b
  <1>new. PICK s0 \in Backend \X (1..MaxScans) : s0 = <<b, n>>
    BY <1>0, <1>3 DEF b
  <1>5. /\ AllScans' = AllScans \cup {s0} /\ s0 \notin AllScans
        /\ \A s \in AllScans : ScanAt(s)' = ScanAt(s)
        /\ ScanAt(s0)' = run
    <2>1. \A s \in AllScans : s \in AllScans'
      BY <1>3, <1>4, LimitAssumption DEF AllScans
    <2>2. s0 \in AllScans' /\ s0 \notin AllScans
      BY <1>0, <1>3, <1>4, <1>new, LimitAssumption DEF AllScans, b
    <2>3. ASSUME NEW s \in AllScans', s \notin AllScans
          PROVE  s = s0
      <3>1. s[1] \in Backend /\ s = <<s[1], s[2]>> /\ s[2] \in 1..MaxScans
            /\ s[2] \in DOMAIN scans'[s[1]] /\ s[2] \notin DOMAIN scans[s[1]]
        BY <2>3 DEF AllScans
      <3>2. s[1] = b
        BY <1>3, <3>1
      <3>3. s[2] = n
        BY <1>3, <1>4, <3>1, <3>2, LimitAssumption
      <3>4. QED
        BY <3>1, <3>2, <3>3, <1>new
    <2>4. ASSUME NEW s \in AllScans
          PROVE  ScanAt(s)' = ScanAt(s)
      BY <1>3, <1>4 DEF AllScans, ScanAt
    <2>5. ScanAt(s0)' = run
      BY <1>4, <1>new DEF ScanAt
    <2>6. QED
      BY <2>1, <2>2, <2>3, <2>4, <2>5
  <1>6. s0[1] = b /\ s0 = <<call'[a].row.backend, call'[a].scan>>
    BY <1>2, <1>new DEF b
  <1>7. \A c \in Backend : Len(scans'[c]) <= MaxScans
    BY <1>3, <1>4, LimitAssumption DEF IInv, ScansInv
  <1>8. QED
    BY <1>5, <1>6, <1>7 DEF run, b

LEMMA StartKeeps ==
    ASSUME IInv, TypeOK', NEW a \in Actor, NEW tags \in SUBSET Tag, StartScan(a, tags)
    PROVE  IInv'
  <1> DEFINE b == call[a].row.backend
             run == [plan |-> call[a].plan, tags |-> tags, at |-> now, by |-> a]
  <1>0. /\ call[a].plan \in Plan /\ b \in Backend /\ call[a].row.tags \in SUBSET Tag
        /\ call[a].pc = "launch_scan" /\ scan_plans[call[a].plan] # NoPlan
        /\ SamePlan(call[a].row, scan_plans[call[a].plan])
    BY CallFacts DEF IInv, TypeOK, PlansInv, StartScan
  <1>1. /\ tags \subseteq call[a].row.tags /\ tags # {}
        /\ scan_plans' = scan_plans /\ launched' = launched /\ orphans' = orphans
        /\ dry_run' = dry_run /\ now' = now
    BY DEF StartScan, tables
  <1>2. /\ call'[a].pc = "mark_consumed"
        /\ call'[a].plan = call[a].plan /\ call'[a].row = call[a].row
        /\ \A d \in Actor : d # a => call'[d] = call[d]
    BY DEF StartScan, LaunchBackend, IInv, TypeOK, Call
  <1>3. PICK s0 \in Backend \X (1..MaxScans) :
               /\ s0 = <<call'[a].row.backend, call'[a].scan>>
               /\ s0[1] = b
               /\ AllScans' = AllScans \cup {s0} /\ s0 \notin AllScans
               /\ \A s \in AllScans : ScanAt(s)' = ScanAt(s)
               /\ ScanAt(s0)' = run
               /\ \A c \in Backend : Len(scans'[c]) <= MaxScans
    BY ScanAdded
  <1> HIDE DEF run, b
  <1>5. /\ AllScans' = AllScans \cup {s0} /\ s0 \notin AllScans
        /\ \A s \in AllScans : ScanAt(s)' = ScanAt(s)
        /\ ScanAt(s0)' = run
    BY <1>3
  <1>6. run.plan = call[a].plan /\ run.tags = tags /\ run.at = now /\ run.by = a
    BY DEF run
  <1>7. s0[1] = b /\ s0 = <<call'[a].row.backend, call'[a].scan>>
    BY <1>3
  <1>8. \A s : Recorded(s)' = Recorded(s)
    BY <1>1 DEF Recorded
  <1>9. \A s : Recorded(s) => <<s[1], s[2]>> \in AllScans
    BY DEF IInv, LaunchedRowsTrue, Recorded
  <1>10. PlansInv' /\ LoopsInv'
    BY <1>0, <1>1, <1>2 DEF IInv, PlansInv, LoopsInv, SamePlan, OnAllowList
  <1>11. ScansInv'
    <2>1. \A c \in Backend : Len(scans'[c]) <= MaxScans
      BY <1>3
    <2>2. now \in Nat /\ now <= now
      BY LimitAssumption DEF IInv, TypeOK
    <2>3. QED
      BY <1>0, <1>1, <1>5, <1>6, <1>7, <2>1, <2>2 DEF IInv, ScansInv, SamePlan, b
  <1>12. StartedInv'
    <2>1. OwnScan(a)'
      BY <1>2, <1>5, <1>6, <1>7 DEF OwnScan
    <2>2. \A d \in Actor : d # a /\ OwnScan(d) => OwnScan(d)'
      BY <1>2, <1>5 DEF OwnScan
    <2>3. QED
      BY <1>1, <1>2, <2>1, <2>2 DEF IInv, StartedInv
  <1>13. FirstInv'
    BY <1>1, <1>2, <1>5, <1>6 DEF IInv, FirstInv
  <1>14. UnrecordedInv'
    <2>1. ~ Recorded(s0)
      BY <1>5, <1>7, <1>9
    <2>2. QED
      BY <1>2, <1>7, <1>8, <2>1 DEF IInv, UnrecordedInv
  <1>15. EveryScanAccounted'
    <2>1. StartedBy(a, s0)'
      BY <1>2, <1>7 DEF StartedBy, Started
    <2>2. \A d \in Actor, s \in AllScans : StartedBy(d, s) => StartedBy(d, s)'
      BY <1>0, <1>2 DEF StartedBy, Started
    <2>3. QED
      BY <1>1, <1>5, <1>8, <2>1, <2>2 DEF IInv, EveryScanAccounted
  <1>16. LaunchedRowsTrue'
    BY <1>1, <1>5 DEF IInv, LaunchedRowsTrue
  <1>17. OncePerActor'
    BY <1>0, <1>1, <1>5, <1>6 DEF IInv, OncePerActor, FirstInv
  <1>18. UnattendedScansAdmitted'
    <2>1. a \notin Mcp => /\ ~ dry_run /\ call[a].row.backend = primary_backend
                          /\ call[a].row.tags \cap auto_scan_allow_tags # {}
      BY <1>0 DEF IInv, LoopsInv, OnAllowList
    <2>2. QED
      BY <1>0, <1>1, <1>5, <1>6, <2>1 DEF IInv, UnattendedScansAdmitted, SamePlan
  <1>19. QED
    BY <1>10, <1>11, <1>12, <1>13, <1>14, <1>15, <1>16, <1>17, <1>18 DEF IInv

LEMMA ConsumeKeeps ==
    ASSUME IInv, TypeOK', NEW a \in Actor, MarkConsumed(a)
    PROVE  IInv'
  <1>1. /\ call'[a].pc = "audit_launched" /\ call'[a].plan = call[a].plan
        /\ call'[a].row = call[a].row /\ call'[a].scan = call[a].scan
        /\ \A d \in Actor : d # a => call'[d] = call[d]
    BY GoToFacts DEF IInv, MarkConsumed
  <1>2. /\ call[a].pc = "mark_consumed" /\ call[a].plan \in Plan
        /\ scan_plans[call[a].plan] \in PlanRow
        /\ scans' = scans /\ orphans' = orphans /\ launched' = launched
        /\ dry_run' = dry_run /\ now' = now
    BY CallFacts DEF IInv, TypeOK, MarkConsumed, world
  <1>3. /\ scan_plans' = [scan_plans EXCEPT ![call[a].plan] =
                              [scan_plans[call[a].plan] EXCEPT !.consumed = TRUE]]
        /\ scan_plans \in [Plan -> PlanRow \cup {NoPlan}]
    BY <1>2 DEF MarkConsumed, IInv, TypeOK
  <1>4. LET new == [scan_plans[call[a].plan] EXCEPT !.consumed = TRUE]
        IN  /\ new \in PlanRow /\ new.consumed
            /\ SamePlan(new, scan_plans[call[a].plan])
    BY <1>2 DEF PlanRow, SamePlan
  <1>5. \A p \in Plan :
            /\ scan_plans'[p] = NoPlan <=> scan_plans[p] = NoPlan
            /\ SamePlan(scan_plans'[p], scan_plans[p])
            /\ p # call[a].plan => scan_plans'[p] = scan_plans[p]
    BY <1>2, <1>3, <1>4, NoPlanAssumption DEF SamePlan
  <1>6. scan_plans'[call[a].plan].consumed
    BY <1>2, <1>3, <1>4
  <1>7. AllScans' = AllScans /\ \A s : ScanAt(s)' = ScanAt(s)
    BY <1>2, ScansStay
  <1>8. \A s \in AllScans : ScanAt(s).plan \in Plan
    BY ScanType DEF IInv
  <1>9. \A s : Recorded(s)' = Recorded(s)
    BY <1>2 DEF Recorded
  <1>10. \A d \in Actor : call[d].pc # "idle" => call[d].plan \in Plan
    BY CallFacts DEF IInv
  <1>11. PlansInv'
    BY <1>1, <1>2, <1>5, <1>10 DEF IInv, PlansInv, SamePlan
  <1>12. LoopsInv'
    BY <1>1, <1>2 DEF IInv, LoopsInv, OnAllowList
  <1>13. ScansInv'
    BY <1>2, <1>5, <1>7, <1>8 DEF IInv, ScansInv, SamePlan
  <1>14. StartedInv'
    <2>1. \A d \in Actor : OwnScan(d) => OwnScan(d)'
      BY <1>1, <1>7 DEF OwnScan
    <2>2. \A d \in Actor : call'[d].pc = "audit_launched" =>
              scan_plans'[call'[d].plan].consumed
      BY <1>1, <1>5, <1>6, <1>10 DEF IInv, StartedInv
    <2>3. QED
      BY <1>1, <1>2, <2>1, <2>2 DEF IInv, StartedInv, Started
  <1>15. FirstInv' /\ UnrecordedInv'
    BY <1>1, <1>2, <1>7, <1>9 DEF IInv, FirstInv, UnrecordedInv, Started
  <1>16. EveryScanAccounted'
    <2>1. \A s \in AllScans, d \in Actor : StartedBy(d, s) => StartedBy(d, s)'
      BY <1>1, <1>2 DEF StartedBy, Started
    <2>2. \A s \in AllScans : scan_plans[ScanAt(s).plan].consumed
                                 => scan_plans'[ScanAt(s).plan].consumed
      BY <1>5, <1>6, <1>8
    <2>3. QED
      BY <1>2, <1>7, <1>9, <2>1, <2>2 DEF IInv, EveryScanAccounted
  <1>17. LaunchedRowsTrue'
    BY <1>2, <1>5, <1>7, <1>8 DEF IInv, LaunchedRowsTrue, SamePlan
  <1>18. OncePerActor' /\ UnattendedScansAdmitted'
    BY <1>2, <1>5, <1>7, <1>8 DEF IInv, OncePerActor, UnattendedScansAdmitted, SamePlan
  <1>19. QED
    BY <1>11, <1>12, <1>13, <1>14, <1>15, <1>16, <1>17, <1>18 DEF IInv

LEMMA RecordKeeps ==
    ASSUME IInv, TypeOK', NEW a \in Actor, AuditLaunched(a)
    PROVE  IInv'
  <1>1. /\ call'[a].pc = "idle" /\ call'[a].plan = NoPlan
        /\ \A d \in Actor : d # a => call'[d] = call[d]
    BY EndFacts DEF IInv, AuditLaunched
  <1>2. /\ call[a].pc = "audit_launched" /\ call[a].pc \in Started
        /\ call[a].plan \in Plan /\ call[a].row.backend \in Backend /\ call[a].scan \in Nat
        /\ scans' = scans /\ orphans' = orphans /\ scan_plans' = scan_plans
        /\ dry_run' = dry_run /\ now' = now
    BY CallFacts DEF IInv, AuditLaunched, world, Started
  <1>3. PICK s0 \in Backend \X Nat : s0 = <<call[a].row.backend, call[a].scan>>
    BY <1>2
  <1>4. PICK k \in Nat : k = Len(launched) + 1
    BY DEF IInv, TypeOK
  <1>5. /\ s0 \in AllScans /\ ScanAt(s0).by = a /\ ScanAt(s0).plan = call[a].plan
        /\ scan_plans[call[a].plan].consumed /\ ~ Recorded(s0)
    BY <1>2, <1>3 DEF IInv, StartedInv, OwnScan, UnrecordedInv
  <1>6. /\ DOMAIN launched' = DOMAIN launched \cup {k} /\ k \notin DOMAIN launched
        /\ launched'[k] = RowToRecord(a)
        /\ \A i \in DOMAIN launched : launched'[i] = launched[i]
    BY <1>4 DEF AuditLaunched, IInv, TypeOK
  <1>7. /\ launched'[k].backend = s0[1] /\ launched'[k].scan = s0[2]
        /\ launched'[k].match = call[a].row.match /\ launched'[k].tags = call[a].row.tags
        /\ launched'[k].ts = now /\ <<launched'[k].backend, launched'[k].scan>> = s0
    BY <1>3, <1>6 DEF RowToRecord
  <1>8. AllScans' = AllScans /\ \A s : ScanAt(s)' = ScanAt(s)
    BY <1>2, ScansStay
  <1>9. \A s \in AllScans : Recorded(s)' <=> Recorded(s) \/ s = s0
    <2>1. \A s \in AllScans : s = <<s[1], s[2]>>
      BY ScanType DEF IInv
    <2>2. QED
      BY <1>5, <1>6, <1>7, <2>1 DEF Recorded
  <1>10. \A d \in Actor : call[d].pc = "save_plan" => call[d].plan # NoPlan
    BY DEF IInv, TypeOK
  <1>11. PlansInv' /\ LoopsInv'
    BY <1>1, <1>2, <1>10 DEF IInv, PlansInv, LoopsInv, SamePlan, OnAllowList
  <1>12. ScansInv'
    BY <1>2, <1>8 DEF IInv, ScansInv
  <1>13. StartedInv' /\ FirstInv'
    BY <1>1, <1>2, <1>8 DEF IInv, StartedInv, FirstInv, OwnScan, Started
  <1>14. UnrecordedInv'
    <2>1. SUFFICES ASSUME NEW d \in Actor, call'[d].pc \in Started
                   PROVE  ~ Recorded(<<call[d].row.backend, call[d].scan>>)'
      BY <1>1 DEF UnrecordedInv, Started
    <2>2. d # a /\ call'[d] = call[d] /\ call[d].pc \in Started
      BY <1>1, <2>1 DEF Started
    <2>3. PICK t \in AllScans : t = <<call[d].row.backend, call[d].scan>> /\ ScanAt(t).by = d
      BY <2>2 DEF IInv, StartedInv, OwnScan
    <2>4. t # s0 /\ ~ Recorded(t)
      BY <1>5, <2>2, <2>3 DEF IInv, UnrecordedInv
    <2>5. ~ Recorded(t)'
      BY <1>9, <2>4
    <2>6. QED
      BY <2>2, <2>3, <2>5 DEF Recorded
  <1>15. EveryScanAccounted'
    <2>1. \A s \in AllScans : StartedBy(a, s) => s = s0
      BY <1>3, ScanType DEF IInv, StartedBy
    <2>2. \A d \in Actor, s \in AllScans : d # a /\ StartedBy(d, s) => StartedBy(d, s)'
      BY <1>1 DEF StartedBy
    <2>3. QED
      BY <1>2, <1>5, <1>8, <1>9, <2>1, <2>2 DEF IInv, EveryScanAccounted
  <1>16. LaunchedRowsTrue'
    <2>1. LET origin == scan_plans[ScanAt(s0).plan]
          IN  /\ origin.match = launched'[k].match /\ origin.backend = launched'[k].backend
              /\ origin.tags = launched'[k].tags
              /\ ScanAt(s0).tags \subseteq launched'[k].tags
              /\ ScanAt(s0).at <= launched'[k].ts
      BY <1>2, <1>3, <1>5, <1>7 DEF IInv, PlansInv, ScansInv, SamePlan
    <2>2. \A i \in DOMAIN launched :
              ~ (launched[i].backend = s0[1] /\ launched[i].scan = s0[2])
      BY <1>5 DEF Recorded
    <2>3. QED
      BY <1>2, <1>5, <1>6, <1>7, <1>8, <2>1, <2>2 DEF IInv, LaunchedRowsTrue
  <1>17. OncePerActor' /\ UnattendedScansAdmitted'
    BY <1>2, <1>8 DEF IInv, OncePerActor, UnattendedScansAdmitted
  <1>18. QED
    BY <1>11, <1>12, <1>13, <1>14, <1>15, <1>16, <1>17 DEF IInv

(* The scan of a call that dies is an orphan; the others do not notice.    *)
LEMMA FailKeeps ==
    ASSUME IInv, TypeOK', NEW a \in Actor, Fail(a)
    PROVE  IInv'
  <1>1. /\ call'[a].pc = "idle" /\ call'[a].plan = NoPlan
        /\ \A d \in Actor : d # a => call'[d] = call[d]
    BY EndFacts DEF IInv, Fail
  <1>2. /\ orphans \subseteq orphans'
        /\ call[a].pc \in Started => <<call[a].row.backend, call[a].scan>> \in orphans'
        /\ scans' = scans /\ scan_plans' = scan_plans /\ launched' = launched
        /\ dry_run' = dry_run /\ now' = now
    BY DEF Fail, tables, world
  <1>3. AllScans' = AllScans /\ \A s : ScanAt(s)' = ScanAt(s)
    BY <1>2, ScansStay
  <1>4. \A s : Recorded(s)' = Recorded(s)
    BY <1>2 DEF Recorded
  <1>5. \A d \in Actor : call[d].pc = "save_plan" => call[d].plan # NoPlan
    BY DEF IInv, TypeOK
  <1>6. PlansInv' /\ LoopsInv'
    BY <1>1, <1>2, <1>5 DEF IInv, PlansInv, LoopsInv, SamePlan, OnAllowList
  <1>7. ScansInv'
    BY <1>2, <1>3 DEF IInv, ScansInv
  <1>8. StartedInv' /\ FirstInv' /\ UnrecordedInv'
    BY <1>1, <1>2, <1>3, <1>4
    DEF IInv, StartedInv, FirstInv, UnrecordedInv, OwnScan, Started
  <1>9. EveryScanAccounted'
    <2>1. \A s \in AllScans : StartedBy(a, s) => s \in orphans'
      BY <1>2, ScanType DEF IInv, StartedBy
    <2>2. \A d \in Actor, s \in AllScans : d # a /\ StartedBy(d, s) => StartedBy(d, s)'
      BY <1>1 DEF StartedBy
    <2>3. QED
      BY <1>2, <1>3, <1>4, <2>1, <2>2 DEF IInv, EveryScanAccounted
  <1>10. LaunchedRowsTrue' /\ OncePerActor' /\ UnattendedScansAdmitted'
    BY <1>2, <1>3 DEF IInv, LaunchedRowsTrue, OncePerActor, UnattendedScansAdmitted
  <1>11. QED
    BY <1>6, <1>7, <1>8, <1>9, <1>10 DEF IInv

(* Time goes by.                                                           *)
LEMMA TickKeeps ==
    ASSUME IInv, TypeOK', Tick \/ UNCHANGED vars
    PROVE  IInv'
  <1>1. /\ scan_plans' = scan_plans /\ launched' = launched /\ scans' = scans
        /\ orphans' = orphans /\ dry_run' = dry_run /\ call' = call
        /\ now \in Nat /\ now' \in {now, now + 1}
    BY LimitAssumption DEF Tick, vars, tables, world, IInv, TypeOK
  <1>2. AllScans' = AllScans /\ \A s : ScanAt(s)' = ScanAt(s)
    BY <1>1, ScansStay
  <1>3. \A s : Recorded(s)' = Recorded(s)
    BY <1>1 DEF Recorded
  <1>4. PlansInv' /\ LoopsInv'
    BY <1>1 DEF IInv, PlansInv, LoopsInv, SamePlan, OnAllowList
  <1>5. ScansInv'
    <2>1. \A s \in AllScans : ScanAt(s).at \in Nat
      BY ScanType DEF IInv
    <2>2. QED
      BY <1>1, <1>2, <2>1 DEF IInv, ScansInv
  <1>6. StartedInv' /\ FirstInv' /\ UnrecordedInv'
    BY <1>1, <1>2, <1>3 DEF IInv, StartedInv, FirstInv, UnrecordedInv, OwnScan
  <1>7. EveryScanAccounted'
    BY <1>1, <1>2, <1>3 DEF IInv, EveryScanAccounted, StartedBy
  <1>8. LaunchedRowsTrue' /\ OncePerActor' /\ UnattendedScansAdmitted'
    BY <1>1, <1>2 DEF IInv, LaunchedRowsTrue, OncePerActor, UnattendedScansAdmitted
  <1>9. QED
    BY <1>4, <1>5, <1>6, <1>7, <1>8 DEF IInv

LEMMA StepKeeps == IInv /\ [Next]_vars => IInv'
  <1> SUFFICES ASSUME IInv, [Next]_vars
               PROVE  IInv'
    OBVIOUS
  <1>1. TypeOK'
    BY TypeStep DEF IInv
  <1>2. ASSUME NEW a \in Actor, Step(a)
        PROVE  IInv'
    BY <1>1, <1>2, ProposeKeeps, SaveKeeps, AuditProposedKeeps, GetScanPlanKeeps,
       GateKeeps, StartKeeps, ConsumeKeeps, RecordKeeps, FailKeeps
    DEF Step
  <1>3. CASE Tick \/ UNCHANGED vars
    BY <1>1, <1>3, TickKeeps
  <1>4. QED
    BY <1>2, <1>3 DEF Next

-----------------------------------------------------------------------------
(* A scan at a backend is recorded with its plan consumed, or its call is  *)
(* on the way to it, or died: no interleaving loses one.                   *)
THEOREM ScansAreAccounted == Spec => []EveryScanAccounted
  <1>1. IInv => EveryScanAccounted
    BY DEF IInv
  <1>2. QED
    BY InitHolds, StepKeeps, <1>1, PTL DEF Spec

(* An audit row is of a scan that runs, of the plan, the backend and the   *)
(* tags that it names, and no two rows are of one scan.                    *)
THEOREM AuditRowsAreTrue == Spec => []LaunchedRowsTrue
  <1>1. IInv => LaunchedRowsTrue
    BY DEF IInv
  <1>2. QED
    BY InitHolds, StepKeeps, <1>1, PTL DEF Spec

(* An actor launches a plan once, unless its first call died.              *)
THEOREM LaunchesOncePerActor == Spec => []OncePerActor
  <1>1. IInv => OncePerActor
    BY DEF IInv
  <1>2. QED
    BY InitHolds, StepKeeps, <1>1, PTL DEF Spec

(* No loop starts a scan under dry_run, an unscoped one, or one whose plan *)
(* has no tag on the allow-list.                                           *)
THEOREM UnattendedAdmitted == Spec => []UnattendedScansAdmitted
  <1>1. IInv => UnattendedScansAdmitted
    BY DEF IInv
  <1>2. QED
    BY InitHolds, StepKeeps, <1>1, PTL DEF Spec

-----------------------------------------------------------------------------
(* The rate limit, of the scans themselves.                                *)

(* The recent scans whose calls are in flight are at most as many as the   *)
(* calls, since a scan has one call and a call one scan.                   *)
LEMMA StartedScansFew ==
    ASSUME IInv
    PROVE  LET S == {s \in RecentScans \ orphans : \E a \in Actor : StartedBy(a, s)}
           IN  IsFiniteSet(S) /\ Cardinality(S) <= Cardinality(InFlight)
  <1> DEFINE S == {s \in RecentScans \ orphans : \E a \in Actor : StartedBy(a, s)}
             f == [s \in S |-> CHOOSE a \in Actor : StartedBy(a, s)]
  <1>1. \A s \in S : f[s] \in Actor /\ StartedBy(f[s], s)
    OBVIOUS
  <1>2. \A s \in S : f[s] \in InFlight
    BY <1>1 DEF StartedBy, InFlight, Started, Approved
  <1>3. \A s, t \in S : f[s] = f[t] => s = t
    <2>1. \A s \in S : s = <<call[f[s]].row.backend, call[f[s]].scan>>
      <3>1. \A s \in S : s = <<s[1], s[2]>>
        BY ScanType DEF RecentScans, IInv
      <3>2. QED
        BY <1>1, <3>1 DEF StartedBy
    <2>2. QED
      BY <2>1
  <1>4. f \in Injection(S, InFlight)
    BY <1>2, <1>3 DEF Injection, IsInjective
  <1>5. QED
    BY <1>4, FiniteCounts, FS_Injection DEF IInv

(* The recorded ones are at most as many as the rows the gate counts: a    *)
(* row is not older than its scan, and has one scan.                       *)
LEMMA RecordedScansFew ==
    ASSUME IInv
    PROVE  LET S == {s \in RecentScans \ orphans : Recorded(s)}
           IN  IsFiniteSet(S) /\ Cardinality(S) <= count_launches_since
  <1> DEFINE S == {s \in RecentScans \ orphans : Recorded(s)}
             RowOf(s, i) == launched[i].backend = s[1] /\ launched[i].scan = s[2]
             f == [s \in S |-> CHOOSE i \in DOMAIN launched : RowOf(s, i)]
  <1>1. \A s \in S : f[s] \in DOMAIN launched /\ RowOf(s, f[s])
    BY DEF Recorded
  <1>2. \A s \in S : s = <<s[1], s[2]>> /\ ScanAt(s).at \in Nat
                      /\ ScanAt(s).at >= now - window_hours
    BY ScanType DEF RecentScans, IInv
  <1>3. \A i \in DOMAIN launched : launched[i].ts \in Nat
    <2>1. \A i \in DOMAIN launched : launched[i] \in LaunchRow
      BY DEF IInv, TypeOK
    <2>2. QED
      BY <2>1 DEF LaunchRow
  <1>4. \A s \in S : f[s] \in RecentRows
    <2>1. SUFFICES ASSUME NEW s \in S
                   PROVE  f[s] \in RecentRows
      OBVIOUS
    <2>2. <<launched[f[s]].backend, launched[f[s]].scan>> = s
      BY <1>1, <1>2
    <2>3. ScanAt(s).at <= launched[f[s]].ts
      BY <1>1, <2>2 DEF IInv, LaunchedRowsTrue
    <2>4. now \in Int /\ window_hours \in Int
      BY LimitAssumption DEF IInv, TypeOK
    <2>5. launched[f[s]].ts >= now - window_hours
      BY <1>1, <1>2, <1>3, <2>3, <2>4
    <2>6. QED
      BY <1>1, <2>5 DEF RecentRows
  <1>5. \A s, t \in S : f[s] = f[t] => s = t
    BY <1>1, <1>2
  <1>6. f \in Injection(S, RecentRows)
    BY <1>4, <1>5 DEF Injection, IsInjective
  <1>7. QED
    BY <1>6, FiniteCounts, FS_Injection DEF IInv, count_launches_since

(* The scans started in the last window, but for those whose call died     *)
(* before it was recorded, stay below the limit plus the number of actors. *)
THEOREM ScanStormIsBounded ==
    ASSUME Actor # {}
    PROVE  Spec => []ScanStormBounded
  <1>1. IInv /\ LaunchesBounded => ScanStormBounded
    <2> SUFFICES ASSUME IInv, LaunchesBounded
                 PROVE  ScanStormBounded
      OBVIOUS
    <2> DEFINE S == {s \in RecentScans \ orphans : \E a \in Actor : StartedBy(a, s)}
               T == {s \in RecentScans \ orphans : Recorded(s)}
    <2>1. RecentScans \ orphans = S \cup T
      BY DEF IInv, EveryScanAccounted, RecentScans
    <2>2. IsFiniteSet(S) /\ Cardinality(S) <= Cardinality(InFlight)
      BY StartedScansFew
    <2>3. IsFiniteSet(T) /\ Cardinality(T) <= count_launches_since
      BY RecordedScansFew
    <2> HIDE DEF S, T
    <2>4. Cardinality(S \cup T) = Cardinality(S) + Cardinality(T) - Cardinality(S \cap T)
      BY <2>2, <2>3, FS_Union
    <2>5. /\ Cardinality(S) \in Nat /\ Cardinality(T) \in Nat
          /\ Cardinality(S \cap T) \in Nat
      BY <2>2, <2>3, FS_CardinalityType, FS_Intersection
    <2>6. Cardinality(S \cup T) <= Cardinality(InFlight) + count_launches_since
      BY <2>2, <2>3, <2>4, <2>5, FiniteCounts DEF IInv, count_launches_since
    <2>7. count_launches_since + Cardinality(InFlight)
              <= max_launches_per_window - 1 + Cardinality(Actor)
      BY DEF LaunchesBounded
    <2>8. /\ Cardinality(S \cup T) \in Int /\ Cardinality(InFlight) \in Nat
          /\ count_launches_since \in Nat /\ Cardinality(Actor) \in Nat
      BY <2>4, <2>5, FiniteCounts DEF IInv, count_launches_since
    <2> HIDE DEF count_launches_since
    <2>9. Cardinality(S \cup T) <= max_launches_per_window - 1 + Cardinality(Actor)
      BY <2>6, <2>7, <2>8, LimitAssumption
    <2>10. QED
      BY <2>1, <2>9 DEF ScanStormBounded
  <1>2. QED
    BY <1>1, InitHolds, StepKeeps, RateLimitHolds, PTL DEF Spec
-----------------------------------------------------------------------------
(* The launches implement the register of scans.                           *)

Runs == {<<s, ScanAt(s).plan>> : s \in AllScans}

ConsumedPlans == {p \in Plan : scan_plans[p] # NoPlan /\ scan_plans[p].consumed}

RecordedScans == {<<launched[i].backend, launched[i].scan>> : i \in DOMAIN launched}

registerVars == <<Runs, ConsumedPlans, RecordedScans, orphans>>

ScanOf(a) == <<call[a].row.backend, call[a].scan>>

(* A call that has started a scan has not died, and a plan that has still  *)
(* to be saved is not consumed.                                            *)
OrphansInv ==
    /\ orphans \subseteq AllScans
    /\ \A a \in Actor :
        /\ call[a].pc \in Started => ScanOf(a) \notin orphans
        /\ At(a, "save_plan") => ~ call[a].row.consumed

RegInv == IInv /\ OrphansInv

(* The steps of the register, in the terms of the calls.                   *)
LEMMA StartsOne ==
    ASSUME NEW run \in (Backend \X (1..MaxScans)) \X Plan,
           \A other \in Runs : other[1] # run[1],
           Runs' = Runs \cup {run},
           UNCHANGED <<ConsumedPlans, RecordedScans, orphans>>
    PROVE  Register!Next
  BY DEF Runs, ConsumedPlans, RecordedScans, Register!Next, Register!Start

LEMMA ConsumesOne ==
    ASSUME NEW run \in Runs, run[1] \notin RecordedScans \cup orphans,
           run[2] \notin ConsumedPlans,
           ConsumedPlans' = ConsumedPlans \cup {run[2]},
           UNCHANGED <<Runs, RecordedScans, orphans>>
    PROVE  Register!Next
  BY DEF Runs, ConsumedPlans, RecordedScans, Register!Next, Register!Consume, Register!Open

LEMMA RecordsOne ==
    ASSUME NEW run \in Runs, run[1] \notin RecordedScans \cup orphans,
           run[2] \in ConsumedPlans,
           RecordedScans' = RecordedScans \cup {run[1]},
           UNCHANGED <<Runs, ConsumedPlans, orphans>>
    PROVE  Register!Next
  BY DEF Runs, ConsumedPlans, RecordedScans, Register!Next, Register!Record, Register!Open

LEMMA OrphansOne ==
    ASSUME NEW run \in Runs, run[1] \notin RecordedScans \cup orphans,
           orphans' = orphans \cup {run[1]},
           UNCHANGED <<Runs, ConsumedPlans, RecordedScans>>
    PROVE  Register!Next
  BY DEF Runs, ConsumedPlans, RecordedScans, Register!Next, Register!Orphan, Register!Open

LEMMA Stutters == UNCHANGED registerVars => UNCHANGED Register!vars
  BY DEF Runs, ConsumedPlans, RecordedScans, registerVars, Register!vars

(* The scan of a call under way is open in the register.                   *)
LEMMA OpenScan ==
    ASSUME RegInv, NEW a \in Actor, call[a].pc \in Started
    PROVE  /\ ScanOf(a) \in AllScans
           /\ <<ScanOf(a), call[a].plan>> \in Runs
           /\ ScanOf(a) \notin RecordedScans \cup orphans
  <1>1. /\ ScanOf(a) \in AllScans /\ ScanAt(ScanOf(a)).plan = call[a].plan
        /\ ~ Recorded(ScanOf(a)) /\ ScanOf(a) \notin orphans
    BY DEF RegInv, IInv, StartedInv, OwnScan, UnrecordedInv, OrphansInv, ScanOf
  <1>2. ScanOf(a) \notin RecordedScans
    BY <1>1 DEF RecordedScans, Recorded, ScanOf
  <1>3. QED
    BY <1>1, <1>2 DEF Runs

(* A step that starts, consumes, records and orphans nothing is no step of *)
(* the register.                                                           *)
LEMMA QuietCall ==
    ASSUME RegInv, NEW a \in Actor,
           scans' = scans, launched' = launched, orphans' = orphans,
           ConsumedPlans' = ConsumedPlans,
           \A d \in Actor : d # a => call'[d] = call[d],
           call'[a].pc \notin Started,
           call'[a].pc = "save_plan" => ~ call'[a].row.consumed
    PROVE  OrphansInv' /\ UNCHANGED registerVars
  <1>1. AllScans' = AllScans /\ \A s : ScanAt(s)' = ScanAt(s)
    BY ScansStay
  <1>2. OrphansInv'
    BY <1>1 DEF RegInv, OrphansInv, ScanOf
  <1>3. Runs' = Runs /\ RecordedScans' = RecordedScans
    BY <1>1 DEF Runs, RecordedScans
  <1>4. QED
    BY <1>2, <1>3 DEF registerVars

LEMMA InitRegister == Init => RegInv /\ Register!Init
  <1> SUFFICES ASSUME Init
               PROVE  RegInv /\ Register!Init
    OBVIOUS
  <1>1. /\ \A a \in Actor : call[a].pc = "idle"
        /\ orphans = {} /\ AllScans = {} /\ launched = <<>>
        /\ \A p \in Plan : scan_plans[p] = NoPlan
    BY DEF Init, Idle, CallOf, AllScans
  <1>2. OrphansInv
    BY <1>1 DEF OrphansInv, Started
  <1>3. Register!Init
    BY <1>1 DEF Register!Init
  <1>4. QED
    BY <1>2, <1>3, InitHolds DEF RegInv

(* propose_scan, the gate and the refusals do not touch the register.      *)
LEMMA QuietSteps ==
    ASSUME RegInv, NEW a \in Actor,
           \/ \E m \in Match, b \in Backend, tags \in SUBSET Tag, p \in Plan :
                  Propose(a, m, b, tags, p)
           \/ SaveScanPlan(a) \/ AuditProposed(a)
           \/ \E p \in Plan : GetScanPlan(a, p)
           \/ Approve(a) \/ Refuse(a) \/ AuditRefused(a) \/ RefuseUnscoped(a)
    PROVE  OrphansInv' /\ UNCHANGED registerVars
  <1>1. ASSUME NEW m \in Match, NEW b \in Backend, NEW tags \in SUBSET Tag,
               NEW p \in Plan, Propose(a, m, b, tags, p)
        PROVE  OrphansInv' /\ UNCHANGED registerVars
    <2> DEFINE row == [match |-> m, backend |-> b, tags |-> tags, consumed |-> FALSE]
    <2>0. /\ call'[a].pc = "save_plan" /\ call'[a].plan = p /\ call'[a].row = row
          /\ \A d \in Actor : d # a => call'[d] = call[d]
      BY <1>1, BeginFacts DEF Propose, RegInv, IInv
    <2>1. /\ call'[a].pc = "save_plan" /\ ~ call'[a].row.consumed
          /\ \A d \in Actor : d # a => call'[d] = call[d]
      BY <2>0
    <2>2. UNCHANGED <<tables, scans, orphans>>
      BY <1>1 DEF Propose, world
    <2>3. QED
      BY <2>1, <2>2, QuietCall DEF tables, ConsumedPlans, Started
  <1>2. CASE SaveScanPlan(a)
    <2>1. /\ call'[a].pc = "audit_proposed"
          /\ \A d \in Actor : d # a => call'[d] = call[d]
      BY <1>2, GoToFacts DEF SaveScanPlan, RegInv, IInv
    <2>2. /\ scan_plans[call[a].plan] = NoPlan /\ ~ call[a].row.consumed
          /\ call[a].plan \in Plan /\ call[a].row \in PlanRow
      BY <1>2, CallFacts DEF SaveScanPlan, RegInv, IInv, PlansInv, OrphansInv
    <2>3. ConsumedPlans' = ConsumedPlans
      BY <1>2, <2>2 DEF SaveScanPlan, ConsumedPlans, RegInv, IInv, TypeOK
    <2>4. QED
      BY <1>2, <2>1, <2>3, QuietCall DEF SaveScanPlan, world, Started
  <1>3. CASE AuditProposed(a)
    <2>1. /\ call'[a].pc \in {"idle", "get_plan"}
          /\ \A d \in Actor : d # a => call'[d] = call[d]
      BY <1>3, GoToFacts, EndFacts DEF AuditProposed, RegInv, IInv
    <2>2. QED
      BY <1>3, <2>1, QuietCall DEF AuditProposed, world, ConsumedPlans, Started
  <1>4. ASSUME NEW p \in Plan, GetScanPlan(a, p)
        PROVE  OrphansInv' /\ UNCHANGED registerVars
    <2>1. /\ call'[a].pc \in {"idle", "evaluate"}
          /\ \A d \in Actor : d # a => call'[d] = call[d]
      BY <1>4, BeginFacts, EndFacts DEF GetScanPlan, RegInv, IInv
    <2>2. UNCHANGED <<tables, scans, orphans>>
      BY <1>4 DEF GetScanPlan, world
    <2>3. QED
      BY <2>1, <2>2, QuietCall DEF tables, ConsumedPlans, Started
  <1>5. CASE Approve(a) \/ Refuse(a)
    <2>1. /\ call'[a].pc \in {"launch_scan", "audit_dry_run", "audit_rejected"}
          /\ \A d \in Actor : d # a => call'[d] = call[d]
      BY <1>5, GoToFacts DEF Approve, Refuse, RegInv, IInv
    <2>2. UNCHANGED <<tables, scans, orphans>>
      BY <1>5 DEF Approve, Refuse, world
    <2>3. QED
      BY <2>1, <2>2, QuietCall DEF tables, ConsumedPlans, Started
  <1>6. CASE AuditRefused(a) \/ RefuseUnscoped(a)
    <2>1. /\ call'[a].pc = "idle"
          /\ \A d \in Actor : d # a => call'[d] = call[d]
      BY <1>6, EndFacts DEF AuditRefused, RefuseUnscoped, RegInv, IInv
    <2>2. UNCHANGED <<scan_plans, launched, scans, orphans>>
      BY <1>6 DEF AuditRefused, RefuseUnscoped, world, tables
    <2>3. QED
      BY <2>1, <2>2, QuietCall DEF ConsumedPlans, Started
  <1>7. QED
    BY <1>1, <1>2, <1>3, <1>4, <1>5, <1>6

(* launch_scan starts a scan that no plan has.                             *)
LEMMA StartSteps ==
    ASSUME RegInv, NEW a \in Actor, NEW tags \in SUBSET Tag, StartScan(a, tags)
    PROVE  OrphansInv' /\ Register!Next
  <1>1. PICK s0 \in Backend \X (1..MaxScans) :
            /\ s0 = <<call'[a].row.backend, call'[a].scan>>
            /\ AllScans' = AllScans \cup {s0} /\ s0 \notin AllScans
            /\ \A s \in AllScans : ScanAt(s)' = ScanAt(s)
            /\ ScanAt(s0)' = [plan |-> call[a].plan, tags |-> tags,
                              at |-> now, by |-> a]
    BY ScanAdded DEF RegInv
  <1>2. /\ call'[a].pc = "mark_consumed"
        /\ \A d \in Actor : d # a => call'[d] = call[d]
        /\ UNCHANGED <<scan_plans, launched, orphans>>
        /\ call[a].plan \in Plan
    BY CallFacts DEF StartScan, LaunchBackend, RegInv, IInv, TypeOK, Call, tables
  <1>3. OrphansInv'
    BY <1>1, <1>2 DEF RegInv, OrphansInv, ScanOf
  <1>4. ScanAt(s0)'.plan = call[a].plan
    BY <1>1
  <1>5. Runs' = Runs \cup {<<s0, call[a].plan>>}
    BY <1>1, <1>4 DEF Runs
  <1>6. \A other \in Runs : other[1] # s0
    BY <1>1 DEF Runs
  <1>7. ConsumedPlans' = ConsumedPlans /\ RecordedScans' = RecordedScans
    BY <1>2 DEF ConsumedPlans, RecordedScans
  <1>8. Register!Next
    <2> DEFINE run == <<s0, call[a].plan>>
    <2>1. run \in (Backend \X (1..MaxScans)) \X Plan /\ run[1] = s0
      BY <1>2
    <2> HIDE DEF run
    <2>2. Runs' = Runs \cup {run} /\ \A other \in Runs : other[1] # run[1]
      BY <1>5, <1>6, <2>1 DEF run
    <2>3. UNCHANGED <<ConsumedPlans, RecordedScans, orphans>>
      BY <1>2, <1>7
    <2>4. QED
      BY <2>1, <2>2, <2>3, StartsOne
  <1>9. QED
    BY <1>3, <1>8

(* mark_plan_consumed: of a scan that runs, unless another call was first. *)
LEMMA ConsumeSteps ==
    ASSUME RegInv, NEW a \in Actor, MarkConsumed(a)
    PROVE  OrphansInv' /\ (Register!Next \/ UNCHANGED registerVars)
  <1>1. /\ call'[a].pc = "audit_launched" /\ call'[a].row = call[a].row
        /\ call'[a].scan = call[a].scan
        /\ \A d \in Actor : d # a => call'[d] = call[d]
    BY GoToFacts DEF RegInv, IInv, MarkConsumed
  <1>2. /\ call[a].pc \in Started /\ call[a].plan \in Plan
        /\ scan_plans[call[a].plan] \in PlanRow
        /\ UNCHANGED <<scans, launched, orphans>>
    BY CallFacts DEF RegInv, IInv, TypeOK, MarkConsumed, world, Started
  <1>3. AllScans' = AllScans /\ \A s : ScanAt(s)' = ScanAt(s)
    BY <1>2, ScansStay
  <1>4. OrphansInv'
    BY <1>1, <1>2, <1>3 DEF RegInv, OrphansInv, ScanOf
  <1>5. Runs' = Runs /\ RecordedScans' = RecordedScans
    BY <1>2, <1>3 DEF Runs, RecordedScans
  <1>6. ConsumedPlans' = ConsumedPlans \cup {call[a].plan}
    <2>1. /\ scan_plans' = [scan_plans EXCEPT ![call[a].plan] =
                                [scan_plans[call[a].plan] EXCEPT !.consumed = TRUE]]
          /\ scan_plans \in [Plan -> PlanRow \cup {NoPlan}]
      BY <1>2 DEF MarkConsumed, RegInv, IInv, TypeOK
    <2>2. LET new == [scan_plans[call[a].plan] EXCEPT !.consumed = TRUE]
          IN  new \in PlanRow /\ new.consumed
      BY <1>2 DEF PlanRow
    <2>3. QED
      BY <1>2, <2>1, <2>2, NoPlanAssumption DEF ConsumedPlans
  <1>7. PICK run \in Runs : /\ run[1] = ScanOf(a) /\ run[2] = call[a].plan
                            /\ run[1] \notin RecordedScans \cup orphans
    BY <1>2, OpenScan
  <1>8. Register!Next \/ UNCHANGED registerVars
    BY <1>2, <1>5, <1>6, <1>7, ConsumesOne DEF registerVars
  <1>9. QED
    BY <1>4, <1>8

(* The audit row of a scan whose plan is consumed.                         *)
LEMMA RecordSteps ==
    ASSUME RegInv, NEW a \in Actor, AuditLaunched(a)
    PROVE  OrphansInv' /\ Register!Next
  <1>1. /\ call'[a].pc = "idle" /\ \A d \in Actor : d # a => call'[d] = call[d]
    BY EndFacts DEF RegInv, IInv, AuditLaunched
  <1>2. /\ call[a].pc = "audit_launched" /\ call[a].pc \in Started
        /\ call[a].plan \in Plan
        /\ UNCHANGED <<scans, scan_plans, orphans>>
    BY CallFacts DEF RegInv, IInv, AuditLaunched, world, Started
  <1>3. AllScans' = AllScans /\ \A s : ScanAt(s)' = ScanAt(s)
    BY <1>2, ScansStay
  <1>4. OrphansInv'
    BY <1>1, <1>2, <1>3 DEF RegInv, OrphansInv, ScanOf, Started
  <1>5. Runs' = Runs /\ ConsumedPlans' = ConsumedPlans
    BY <1>2, <1>3 DEF Runs, ConsumedPlans
  <1>6. PICK k \in Nat : k = Len(launched) + 1
    BY DEF RegInv, IInv, TypeOK
  <1>7. /\ DOMAIN launched' = DOMAIN launched \cup {k}
        /\ launched'[k] = RowToRecord(a)
        /\ \A i \in DOMAIN launched : launched'[i] = launched[i]
    BY <1>6 DEF AuditLaunched, RegInv, IInv, TypeOK
  <1>8. <<launched'[k].backend, launched'[k].scan>> = ScanOf(a)
    BY <1>7 DEF RowToRecord, ScanOf
  <1>9. RecordedScans' = RecordedScans \cup {ScanOf(a)}
    BY <1>7, <1>8 DEF RecordedScans
  <1>10. call[a].plan \in ConsumedPlans
    BY <1>2 DEF ConsumedPlans, RegInv, IInv, TypeOK, StartedInv
  <1>11. PICK run \in Runs : /\ run[1] = ScanOf(a) /\ run[2] = call[a].plan
                             /\ run[1] \notin RecordedScans \cup orphans
    BY <1>2, OpenScan
  <1>12. Register!Next
    BY <1>2, <1>5, <1>9, <1>10, <1>11, RecordsOne
  <1>13. QED
    BY <1>4, <1>12

(* A call that dies orphans its scan if it has one, and no other.          *)
LEMMA FailSteps ==
    ASSUME RegInv, NEW a \in Actor, Fail(a)
    PROVE  OrphansInv' /\ (Register!Next \/ UNCHANGED registerVars)
  <1>1. /\ call'[a].pc = "idle" /\ \A d \in Actor : d # a => call'[d] = call[d]
        /\ UNCHANGED <<scans, scan_plans, launched>>
    BY EndFacts DEF RegInv, IInv, Fail, tables, world
  <1>2. CASE call[a].pc \notin Started
    <2>1. orphans' = orphans /\ ConsumedPlans' = ConsumedPlans
      BY <1>1, <1>2 DEF Fail, ConsumedPlans
    <2>2. QED
      BY <1>1, <2>1, QuietCall DEF Started
  <1>3. CASE call[a].pc \in Started
    <2>1. orphans' = orphans \cup {ScanOf(a)}
      BY <1>3 DEF Fail, ScanOf
    <2>2. AllScans' = AllScans /\ \A s : ScanAt(s)' = ScanAt(s)
      BY <1>1, ScansStay
    <2>3. ScanOf(a) \in AllScans /\ ScanAt(ScanOf(a)).by = a
      BY <1>3 DEF RegInv, IInv, StartedInv, OwnScan, ScanOf
    <2>4. \A d \in Actor : d # a /\ call[d].pc \in Started => ScanOf(d) # ScanOf(a)
      BY <2>3 DEF RegInv, IInv, StartedInv, OwnScan, ScanOf
    <2>5. OrphansInv'
      BY <1>1, <2>1, <2>2, <2>3, <2>4 DEF RegInv, OrphansInv, ScanOf, Started
    <2>6. UNCHANGED <<Runs, ConsumedPlans, RecordedScans>>
      BY <1>1, <2>2 DEF Runs, ConsumedPlans, RecordedScans
    <2>7. PICK run \in Runs : /\ run[1] = ScanOf(a)
                              /\ run[1] \notin RecordedScans \cup orphans
      BY <1>3, OpenScan
    <2>8. QED
      BY <2>1, <2>5, <2>6, <2>7, OrphansOne
  <1>4. QED
    BY <1>2, <1>3

LEMMA RegisterStep == RegInv /\ [Next]_vars => RegInv' /\ [Register!Next]_(Register!vars)
  <1> SUFFICES ASSUME RegInv, [Next]_vars
               PROVE  RegInv' /\ [Register!Next]_(Register!vars)
    OBVIOUS
  <1>1. IInv'
    BY StepKeeps DEF RegInv
  <1>2. ASSUME NEW a \in Actor, Step(a)
        PROVE  OrphansInv' /\ (Register!Next \/ UNCHANGED registerVars)
    BY <1>2, QuietSteps, StartSteps, ConsumeSteps, RecordSteps, FailSteps DEF Step
  <1>3. CASE Tick \/ UNCHANGED vars
    <2>1. UNCHANGED <<scans, scan_plans, launched, call, orphans>>
      BY <1>3 DEF Tick, vars, tables, world
    <2>2. AllScans' = AllScans /\ \A s : ScanAt(s)' = ScanAt(s)
      BY <2>1, ScansStay
    <2>3. OrphansInv' /\ UNCHANGED registerVars
      BY <2>1, <2>2
      DEF RegInv, OrphansInv, ScanOf, registerVars, Runs, ConsumedPlans, RecordedScans
    <2>4. QED
      BY <1>1, <2>3, Stutters DEF RegInv
  <1>4. QED
    BY <1>1, <1>2, <1>3, Stutters DEF Next, RegInv

(* No interleaving of the calls, and no call that dies, consumes a plan    *)
(* without a scan of it, records a scan before its plan is consumed, a     *)
(* second time or after its call has died, or takes anything back.         *)
THEOREM CallsKeepTheRegister == Spec => ImplementsRegister
  BY InitRegister, RegisterStep, PTL DEF Spec, ImplementsRegister, Register!Spec
===============================================================================
