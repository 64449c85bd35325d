----------------------------- MODULE LaunchProofs -----------------------------
(***************************************************************************)
(* Theorems about LaunchPath, for any number of loops and MCP servers, any *)
(* limit and window, and calls that may fail anywhere.                     *)
(***************************************************************************)
EXTENDS LaunchPath, FiniteSetTheorems, TLAPS

USE DEF At, GoTo, End

-----------------------------------------------------------------------------
LEMMA IdleType == Idle \in Call
  BY DEF Idle, CallOf, Call

LEMMA InitType == Init => TypeOK
  BY IdleType, LimitAssumption DEF Init, TypeOK, Idle, CallOf

(* The part of TypeOK about the calls in progress.                         *)
CallsOK ==
    /\ call \in [Actor -> Call]
    /\ \A a \in Actor :
           ~ At(a, "idle") => call[a].plan # NoPlan /\ call[a].row # NoPlan

SavedOK ==
    \A a \in Actor : call[a].pc \notin {"idle", "save_plan"} =>
        scan_plans[call[a].plan] # NoPlan

Label == {"idle", "save_plan", "audit_proposed", "get_plan", "evaluate",
          "audit_rejected", "audit_dry_run"} \cup Approved

(* A call that moves on keeps its plan and its row.                        *)
LEMMA GoToType ==
    ASSUME CallsOK, NEW a \in Actor, NEW label \in Label,
           ~ At(a, "idle"), GoTo(a, label)
    PROVE  CallsOK'
  <1>1. [call[a] EXCEPT !.pc = label] \in Call
    BY DEF CallsOK, Call, Label
  <1>2. QED
    BY <1>1 DEF CallsOK, Call

LEMMA EndType ==
    ASSUME CallsOK, NEW a \in Actor, End(a)
    PROVE  CallsOK'
  BY IdleType DEF CallsOK, Idle, CallOf

(* A call that draws or reads a plan starts with its id and its row.       *)
LEMMA BeginType ==
    ASSUME CallsOK, NEW a \in Actor, NEW p \in Plan, NEW row \in PlanRow,
           NEW label \in Label,
           call' = [call EXCEPT ![a] = CallOf(label, p, row)]
    PROVE  CallsOK'
  <1>1. CallOf(label, p, row) \in Call
    BY DEF Call, CallOf, Label
  <1>2. p # NoPlan /\ row # NoPlan
    BY NoPlanAssumption
  <1>3. CallOf(label, p, row).plan = p /\ CallOf(label, p, row).row = row
    BY DEF CallOf
  <1>4. QED
    BY <1>1, <1>2, <1>3 DEF CallsOK

(* What a call in progress holds.                                          *)
LEMMA CallFacts ==
    ASSUME TypeOK, NEW a \in Actor, ~ At(a, "idle")
    PROVE  /\ call[a].plan \in Plan
           /\ call[a].row \in PlanRow
           /\ call[a].scan \in Nat
           /\ call[a].row.match \in Match
           /\ call[a].row.backend \in Backend
           /\ call[a].row.tags \in SUBSET Tag
  BY DEF TypeOK, Call, PlanRow

(* No row goes away, so a call that goes on still has its plan's row.      *)
LEMMA SavedStep == TypeOK /\ [Next]_vars => SavedOK'
  <1> SUFFICES ASSUME TypeOK, [Next]_vars
               PROVE  SavedOK'
    OBVIOUS
  <1> DEFINE Kept == \A p \in Plan : scan_plans[p] # NoPlan => scan_plans'[p] # NoPlan
             Others(a) == \A d \in Actor : d # a => call'[d] = call[d]
             Own(a) == \/ call'[a].pc \in {"idle", "save_plan"}
                       \/ scan_plans'[call'[a].plan] # NoPlan
  <1>0. /\ SavedOK
        /\ call \in [Actor -> Call]
        /\ scan_plans \in [Plan -> PlanRow \cup {NoPlan}]
        /\ \A a \in Actor : ~ At(a, "idle") => call[a].plan \in Plan
    BY CallFacts DEF TypeOK, SavedOK
  <1>00. NoPlan \notin PlanRow
    BY NoPlanAssumption
  <1>1. ASSUME NEW a \in Actor, Step(a)
        PROVE  Kept /\ Others(a) /\ Own(a)
    <2>1. CASE \E m \in Match, b \in Backend, tags \in SUBSET Tag, p \in Plan :
                   Propose(a, m, b, tags, p)
      BY <1>0, <2>1 DEF Propose, CallOf, tables
    <2>2. CASE SaveScanPlan(a)
      <3>1. call[a].row \in PlanRow /\ call[a].plan \in Plan
        BY <2>2, CallFacts DEF SaveScanPlan
      <3>2. QED
        BY <1>0, <1>00, <2>2, <3>1 DEF SaveScanPlan, Call
    <2>3. CASE AuditProposed(a) \/ Approve(a) \/ Refuse(a)
      BY <1>0, <2>3
      DEF AuditProposed, Approve, Refuse, tables, SavedOK, Idle, CallOf, Call
    <2>4. CASE \E p \in Plan : GetScanPlan(a, p)
      BY <1>0, <2>4 DEF GetScanPlan, tables, Idle, CallOf
    <2>5. CASE AuditRefused(a) \/ RefuseUnscoped(a) \/ AuditLaunched(a) \/ Fail(a)
      BY <1>0, <2>5
      DEF AuditRefused, RefuseUnscoped, AuditLaunched, Fail, tables, Idle, CallOf
    <2>6. CASE \E tags \in SUBSET Tag : StartScan(a, tags)
      BY <1>0, <2>6 DEF StartScan, tables, SavedOK, Call
    <2>7. CASE MarkConsumed(a)
      <3>1. \A row \in PlanRow : [row EXCEPT !.consumed = TRUE] \in PlanRow
        BY DEF PlanRow
      <3>2. scan_plans[call[a].plan] \in PlanRow
        BY <1>0, <2>7 DEF MarkConsumed, SavedOK
      <3>3. scan_plans' = [scan_plans EXCEPT ![call[a].plan] =
                              [scan_plans[call[a].plan] EXCEPT !.consumed = TRUE]]
        BY <1>0, <2>7 DEF MarkConsumed
      <3>4. Kept /\ scan_plans'[call[a].plan] # NoPlan
        BY <1>0, <1>00, <2>7, <3>1, <3>2, <3>3 DEF MarkConsumed
      <3>5. QED
        BY <1>0, <2>7, <3>4 DEF MarkConsumed, Call
    <2>8. QED
      BY <1>1, <2>1, <2>2, <2>3, <2>4, <2>5, <2>6, <2>7 DEF Step
  <1>2. ASSUME NEW a \in Actor, Kept, Others(a), Own(a)
        PROVE  SavedOK'
    BY <1>0, <1>2 DEF SavedOK
  <1>3. CASE Tick \/ UNCHANGED vars
    BY <1>0, <1>3 DEF Tick, vars, tables, SavedOK
  <1>4. QED
    BY <1>1, <1>2, <1>3 DEF Next

(* Every step keeps the shape of the tables, the backends and the calls.   *)
LEMMA TypeStep == TypeOK /\ [Next]_vars => TypeOK'
  <1> SUFFICES ASSUME TypeOK, [Next]_vars
               PROVE  TypeOK'
    OBVIOUS
  <1>0. CallsOK
    BY DEF TypeOK, CallsOK
  <1> DEFINE Tables == /\ scan_plans \in [Plan -> PlanRow \cup {NoPlan}]
                       /\ launched \in Seq(LaunchRow)
                       /\ decisions \subseteq Decision
             World  == /\ dry_run \in BOOLEAN
                       /\ now \in 0..MaxTime
                       /\ scans \in [Backend -> Seq(Scan)]
                       /\ orphans \subseteq Backend \X Nat
  <1>00. Tables /\ World
    BY DEF TypeOK
  <1>1. ASSUME NEW a \in Actor, NEW m \in Match, NEW b \in Backend,
               NEW tags \in SUBSET Tag, NEW p \in Plan, Propose(a, m, b, tags, p)
        PROVE  CallsOK' /\ Tables' /\ World'
    <2>1. [match |-> m, backend |-> b, tags |-> tags, consumed |-> FALSE] \in PlanRow
      BY DEF PlanRow
    <2>2. CallsOK'
      BY <1>0, <1>1, <2>1, BeginType DEF Propose, Label
    <2>3. QED
      BY <1>00, <1>1, <2>2 DEF Propose, tables, world
  <1>2. ASSUME NEW a \in Actor, SaveScanPlan(a)
        PROVE  CallsOK' /\ Tables' /\ World'
    <2>1. CallsOK'
      BY <1>0, <1>2, GoToType DEF SaveScanPlan, Label
    <2>2. QED
      BY <1>00, <1>2, <2>1, CallFacts DEF SaveScanPlan, world
  <1>3. ASSUME NEW a \in Actor, AuditProposed(a)
        PROVE  CallsOK' /\ Tables' /\ World'
    <2>1. CallsOK'
      BY <1>0, <1>3, GoToType, EndType DEF AuditProposed, Label
    <2>2. [event |-> "proposed", match |-> call[a].row.match] \in Decision
      BY <1>3, CallFacts DEF AuditProposed, Decision
    <2>3. QED
      BY <1>00, <1>3, <2>1, <2>2 DEF AuditProposed, RecordDecision, world
  <1>4. ASSUME NEW a \in Actor, NEW p \in Plan, GetScanPlan(a, p)
        PROVE  CallsOK' /\ Tables' /\ World'
    <2>1. scan_plans[p] \in PlanRow
      BY <1>00, <1>4 DEF GetScanPlan
    <2>2. CallsOK'
      BY <1>0, <1>4, <2>1, BeginType, EndType DEF GetScanPlan, Label
    <2>3. QED
      BY <1>00, <1>4, <2>2 DEF GetScanPlan, tables, world
  <1>5. ASSUME NEW a \in Actor, Approve(a)
        PROVE  CallsOK' /\ Tables' /\ World'
    <2>1. CallsOK'
      BY <1>0, <1>5, GoToType DEF Approve, Label, Approved
    <2>2. QED
      BY <1>00, <1>5, <2>1 DEF Approve, tables, world
  <1>6. ASSUME NEW a \in Actor, Refuse(a)
        PROVE  CallsOK' /\ Tables' /\ World'
    <2>1. CallsOK'
      BY <1>0, <1>6, GoToType DEF Refuse, Label
    <2>2. QED
      BY <1>00, <1>6, <2>1 DEF Refuse, tables, world
  <1>7. ASSUME NEW a \in Actor, AuditRefused(a)
        PROVE  CallsOK' /\ Tables' /\ World'
    <2>1. CallsOK'
      BY <1>0, <1>7, EndType DEF AuditRefused
    <2>2. \A event \in {"rejected", "dry_run"} :
              [event |-> event, match |-> call[a].row.match] \in Decision
      BY <1>7, CallFacts DEF AuditRefused, Decision
    <2>3. QED
      BY <1>00, <1>7, <2>1, <2>2 DEF AuditRefused, RecordDecision, world
  <1>8. ASSUME NEW a \in Actor, NEW tags \in SUBSET Tag, StartScan(a, tags)
        PROVE  CallsOK' /\ Tables' /\ World'
    <2> DEFINE b == LaunchBackend(a)
               id == Len(scans[b]) + 1
               run == [plan |-> call[a].plan, tags |-> tags, at |-> now, by |-> a]
    <2>1. call[a].plan \in Plan /\ b \in Backend /\ now \in Nat
      BY <1>00, <1>8, CallFacts DEF StartScan, LaunchBackend
    <2>2. run \in Scan
      BY <2>1 DEF Scan
    <2>3. scans' \in [Backend -> Seq(Scan)] /\ id \in Nat
      BY <1>00, <1>8, <2>1, <2>2 DEF StartScan
    <2>4. call' = [call EXCEPT ![a] = [call[a] EXCEPT !.pc = "mark_consumed",
                                                      !.scan = id]]
      BY <1>0, <1>8 DEF StartScan, CallsOK
    <2>5. [call[a] EXCEPT !.pc = "mark_consumed", !.scan = id] \in Call
      BY <1>0, <2>3 DEF CallsOK, Call, Approved
    <2>6. CallsOK'
      BY <1>0, <1>8, <2>4, <2>5 DEF CallsOK, StartScan, Call
    <2>7. QED
      BY <1>00, <1>8, <2>3, <2>6 DEF StartScan, tables
  <1>9. ASSUME NEW a \in Actor, RefuseUnscoped(a)
        PROVE  CallsOK' /\ Tables' /\ World'
    BY <1>0, <1>00, <1>9, EndType DEF RefuseUnscoped, tables, world
  <1>10. ASSUME NEW a \in Actor, MarkConsumed(a)
         PROVE  CallsOK' /\ Tables' /\ World'
    <2>1. CallsOK'
      BY <1>0, <1>10, GoToType DEF MarkConsumed, Label, Approved
    <2>2. \A row \in PlanRow : [row EXCEPT !.consumed = TRUE] \in PlanRow
      BY DEF PlanRow
    <2>3. scan_plans' \in [Plan -> PlanRow \cup {NoPlan}]
      <3>0. scan_plans[call[a].plan] \in PlanRow
        BY <1>00, <1>10, CallFacts DEF MarkConsumed, TypeOK
      <3>1. scan_plans' = [scan_plans EXCEPT ![call[a].plan] =
                              [scan_plans[call[a].plan] EXCEPT !.consumed = TRUE]]
        BY <1>00, <1>10 DEF MarkConsumed
      <3>2. QED
        BY <1>00, <2>2, <3>0, <3>1
    <2>4. QED
      BY <1>00, <1>10, <2>1, <2>3 DEF MarkConsumed, world
  <1>11. ASSUME NEW a \in Actor, AuditLaunched(a)
         PROVE  CallsOK' /\ Tables' /\ World'
    <2>1. RowToRecord(a) \in LaunchRow
      BY <1>00, <1>11, CallFacts DEF AuditLaunched, RowToRecord, LaunchRow
    <2>2. CallsOK'
      BY <1>0, <1>11, EndType DEF AuditLaunched
    <2>3. QED
      BY <1>00, <1>11, <2>1, <2>2 DEF AuditLaunched, world
  <1>12. ASSUME NEW a \in Actor, Fail(a)
         PROVE  CallsOK' /\ Tables' /\ World'
    <2>1. CallsOK'
      BY <1>0, <1>12, EndType DEF Fail
    <2>2. <<call[a].row.backend, call[a].scan>> \in Backend \X Nat
      BY <1>12, CallFacts DEF Fail
    <2>3. QED
      BY <1>00, <1>12, <2>1, <2>2 DEF Fail, tables, world
  <1>13. ASSUME Tick
         PROVE  CallsOK' /\ Tables' /\ World'
    BY <1>0, <1>00, <1>13, LimitAssumption DEF Tick, CallsOK, tables
  <1>14. CASE UNCHANGED vars
    BY <1>14 DEF TypeOK, vars, tables, world
  <1>15. QED
    BY <1>1, <1>2, <1>3, <1>4, <1>5, <1>6, <1>7, <1>8, <1>9, <1>10, <1>11,
       <1>12, <1>13, <1>14, SavedStep DEF Next, Step, TypeOK, CallsOK, SavedOK

(* Type correctness: the tables, the backends and the calls in progress    *)
(* keep their shape.                                                       *)
THEOREM TypeCorrect == Spec => []TypeOK
  BY InitType, TypeStep, PTL DEF Spec

-----------------------------------------------------------------------------
(* The rate limit.                                                         *)

LEMMA FiniteCounts ==
    ASSUME TypeOK
    PROVE  /\ IsFiniteSet(RecentRows) /\ Cardinality(RecentRows) \in Nat
           /\ IsFiniteSet(InFlight) /\ Cardinality(InFlight) \in Nat
           /\ Cardinality(InFlight) <= Cardinality(Actor)
           /\ Cardinality(Actor) \in Nat
  <1>1. Len(launched) \in Nat /\ DOMAIN launched = 1..Len(launched)
    BY DEF TypeOK
  <1>2. IsFiniteSet(DOMAIN launched)
    BY <1>1, FS_Interval
  <1>3. RecentRows \in SUBSET DOMAIN launched /\ InFlight \in SUBSET Actor
    BY DEF RecentRows, InFlight
  <1>4. IsFiniteSet(RecentRows)
    BY <1>2, <1>3, FS_Subset
  <1>5. IsFiniteSet(InFlight) /\ Cardinality(InFlight) <= Cardinality(Actor)
    BY <1>3, ActorAssumption, FS_Subset
  <1>6. QED
    BY <1>4, <1>5, ActorAssumption, FS_CardinalityType

(* A step that neither records a launch nor approves one leaves the count  *)
(* and the calls in flight where they are, or lowers them.                 *)
LEMMA QuietStep ==
    ASSUME TypeOK, TypeOK', LaunchesBounded,
           RecentRows' \subseteq RecentRows, InFlight' \subseteq InFlight
    PROVE  LaunchesBounded'
  <1>1. Cardinality(RecentRows') <= Cardinality(RecentRows)
    BY FiniteCounts, FS_Subset
  <1>2. Cardinality(InFlight') <= Cardinality(InFlight)
    BY FiniteCounts, FS_Subset
  <1>3. Cardinality(RecentRows') \in Nat /\ Cardinality(InFlight') \in Nat
    BY FiniteCounts, FS_Subset, FS_CardinalityType
  <1>4. QED
    BY <1>1, <1>2, <1>3, FiniteCounts, LimitAssumption
    DEF LaunchesBounded, count_launches_since

(* A call that passes the gate saw fewer recent launches than the limit,   *)
(* and all the actors together have no more calls in flight than there are *)
(* actors.                                                                 *)
LEMMA ApproveStep ==
    ASSUME TypeOK, TypeOK', NEW a \in Actor, Approve(a)
    PROVE  LaunchesBounded'
  <1>1. RecentRows' = RecentRows
    BY DEF Approve, RecentRows, tables, world
  <1>2. Cardinality(RecentRows) <= max_launches_per_window - 1
    BY FiniteCounts, LimitAssumption
    DEF Approve, Admits, RateLimited, count_launches_since
  <1>3. InFlight' \in SUBSET Actor
    BY DEF InFlight
  <1>4. IsFiniteSet(InFlight') /\ Cardinality(InFlight') <= Cardinality(Actor)
    BY <1>3, ActorAssumption, FS_Subset
  <1>5. Cardinality(InFlight') \in Nat
    BY <1>4, FS_CardinalityType
  <1>6. QED
    BY <1>1, <1>2, <1>4, <1>5, FiniteCounts, LimitAssumption
    DEF LaunchesBounded, count_launches_since

(* Recording a launch moves one call from those in flight to those counted.*)
LEMMA RecordStep ==
    ASSUME TypeOK, TypeOK', LaunchesBounded, NEW a \in Actor, AuditLaunched(a)
    PROVE  LaunchesBounded'
  <1>1. a \in InFlight /\ InFlight' = InFlight \ {a}
    BY DEF AuditLaunched, InFlight, Approved, Idle, CallOf, TypeOK
  <1>2. /\ IsFiniteSet(InFlight \ {a})
        /\ Cardinality(InFlight \ {a}) = Cardinality(InFlight) - 1
    BY <1>1, FiniteCounts, FS_RemoveElement
  <1>3. RecentRows' \subseteq RecentRows \cup {Len(launched) + 1}
    BY DEF AuditLaunched, RecentRows, TypeOK, world
  <1>4. /\ IsFiniteSet(RecentRows \cup {Len(launched) + 1})
        /\ Cardinality(RecentRows \cup {Len(launched) + 1})
               <= Cardinality(RecentRows) + 1
    <2>1. IsFiniteSet(RecentRows) /\ Cardinality(RecentRows) \in Nat
      BY FiniteCounts
    <2> DEFINE S == RecentRows
               x == Len(launched) + 1
    <2> HIDE DEF S, x
    <2>2. /\ IsFiniteSet(S \cup {x})
          /\ Cardinality(S \cup {x}) = IF x \in S THEN Cardinality(S)
                                       ELSE Cardinality(S) + 1
      BY <2>1, FS_AddElement DEF S
    <2>3. Cardinality(S \cup {x}) <= Cardinality(S) + 1
      BY <2>1, <2>2 DEF S
    <2>4. QED
      BY <2>2, <2>3 DEF S, x
  <1>5. /\ Cardinality(RecentRows') \in Nat
        /\ Cardinality(RecentRows') <= Cardinality(RecentRows) + 1
    <2>1. /\ IsFiniteSet(RecentRows')
          /\ Cardinality(RecentRows') <= Cardinality(RecentRows \cup {Len(launched) + 1})
      BY <1>3, <1>4, FS_Subset
    <2>2. Cardinality(RecentRows') \in Nat
      BY <2>1, FS_CardinalityType
    <2>3. Cardinality(RecentRows \cup {Len(launched) + 1}) \in Nat
      BY <1>4, FS_CardinalityType
    <2>4. QED
      BY <1>4, <2>1, <2>2, <2>3, FiniteCounts
  <1>6. Cardinality(InFlight') = Cardinality(InFlight) - 1
    BY <1>1, <1>2
  <1>7. QED
    BY <1>5, <1>6, FiniteCounts, LimitAssumption
    DEF LaunchesBounded, count_launches_since

LEMMA StepBounded ==
    TypeOK /\ TypeOK' /\ LaunchesBounded /\ [Next]_vars => LaunchesBounded'
  <1> SUFFICES ASSUME TypeOK, TypeOK', LaunchesBounded, [Next]_vars
               PROVE  LaunchesBounded'
    OBVIOUS
  <1> DEFINE Quiet == RecentRows' \subseteq RecentRows /\ InFlight' \subseteq InFlight
  <1>1. ASSUME NEW a \in Actor, Step(a), ~ Approve(a), ~ AuditLaunched(a)
        PROVE  Quiet
    <2>1. RecentRows' = RecentRows
      BY <1>1
      DEF Step, Propose, SaveScanPlan, AuditProposed, GetScanPlan, Refuse,
          AuditRefused, StartScan, RefuseUnscoped, MarkConsumed, Fail,
          RecentRows, tables, world
    <2>2. call \in [Actor -> Call]
      BY DEF TypeOK
    <2>3. \A d \in Actor : d # a => call'[d] = call[d]
      BY <1>1, <2>2
      DEF Step, Propose, SaveScanPlan, AuditProposed, GetScanPlan, Refuse,
          AuditRefused, StartScan, RefuseUnscoped, MarkConsumed, Fail
    <2>4. call'[a].pc \in Approved => call[a].pc \in Approved
      <3>1. CASE \E m \in Match, b \in Backend, tags \in SUBSET Tag, p \in Plan :
                     Propose(a, m, b, tags, p)
        BY <2>2, <3>1 DEF Propose, CallOf, Approved
      <3>2. CASE SaveScanPlan(a) \/ AuditProposed(a) \/ Refuse(a)
        BY <2>2, <3>2
        DEF SaveScanPlan, AuditProposed, Refuse, Approved, Idle, CallOf, Call
      <3>3. CASE \E p \in Plan : GetScanPlan(a, p)
        BY <2>2, <3>3 DEF GetScanPlan, Approved, Idle, CallOf
      <3>4. CASE AuditRefused(a) \/ RefuseUnscoped(a) \/ Fail(a)
        BY <2>2, <3>4
        DEF AuditRefused, RefuseUnscoped, Fail, Approved, Idle, CallOf
      <3>5. CASE (\E tags \in SUBSET Tag : StartScan(a, tags)) \/ MarkConsumed(a)
        BY <3>5 DEF StartScan, MarkConsumed, Approved
      <3>6. QED
        BY <1>1, <3>1, <3>2, <3>3, <3>4, <3>5 DEF Step
    <2>5. QED
      BY <2>1, <2>3, <2>4 DEF InFlight
  <1>2. CASE Tick
    <2>1. Quiet
      <3>1. launched' = launched /\ InFlight' = InFlight
        BY <1>2 DEF Tick, InFlight, tables
      <3>2. \A i \in DOMAIN launched : launched[i].ts \in Nat
        <4>1. \A i \in DOMAIN launched : launched[i] \in LaunchRow
          BY DEF TypeOK
        <4>2. QED
          BY <4>1 DEF LaunchRow
      <3>3. now \in Nat /\ now' = now + 1 /\ window_hours \in Nat
        BY <1>2, LimitAssumption DEF Tick, TypeOK
      <3>4. QED
        BY <3>1, <3>2, <3>3 DEF RecentRows
    <2>2. QED
      BY <2>1, QuietStep
  <1>3. CASE UNCHANGED vars
    <2>1. Quiet
      BY <1>3 DEF vars, tables, world, RecentRows, InFlight
    <2>2. QED
      BY <2>1, QuietStep
  <1>4. QED
    BY <1>1, <1>2, <1>3, QuietStep, ApproveStep, RecordStep DEF Next

(* The launches counted and those under way stay below the limit plus the  *)
(* number of actors, whatever the interleaving and wherever calls fail.    *)
THEOREM RateLimitHolds ==
    ASSUME Actor # {}
    PROVE  Spec => []LaunchesBounded
  <1>1. Init => LaunchesBounded
    <2> SUFFICES ASSUME Init
                 PROVE  LaunchesBounded
      OBVIOUS
    <2>1. RecentRows = {} /\ InFlight = {}
      BY DEF Init, RecentRows, InFlight, Approved, Idle, CallOf
    <2>2. Cardinality({}) = 0
      BY FS_EmptySet
    <2>3. Cardinality(Actor) \in Nat /\ Cardinality(Actor) # 0
      BY ActorAssumption, FS_CardinalityType, FS_EmptySet
    <2>4. QED
      BY <2>1, <2>2, <2>3, LimitAssumption DEF LaunchesBounded, count_launches_since
  <1>2. QED
    BY <1>1, InitType, TypeStep, StepBounded, PTL DEF Spec

(* With a single loop or a single MCP server, and nothing else, the window *)
(* never counts more launches than the limit: the gate is exact.           *)
THEOREM OneActorKeepsTheCap ==
    ASSUME Cardinality(Actor) = 1
    PROVE  Spec => [](count_launches_since <= max_launches_per_window)
  <1>1. Actor # {}
    BY FS_EmptySet
  <1>2. TypeOK /\ LaunchesBounded => count_launches_since <= max_launches_per_window
    BY FiniteCounts, LimitAssumption DEF LaunchesBounded, count_launches_since
  <1>3. Spec => [](TypeOK /\ LaunchesBounded)
    BY <1>1, TypeCorrect, RateLimitHolds, PTL
  <1>4. QED
    BY <1>2, <1>3, PTL
===============================================================================
