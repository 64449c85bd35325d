------------------------------ MODULE LaunchPath ------------------------------
(***************************************************************************)
(* From a match to a running scan: Pipeline.propose_scan and               *)
(* Pipeline.launch_targeted_scan (scheduler.py), GuardrailGate.evaluate    *)
(* (guardrails.py), launch_scan and the tag lookups of the two backend     *)
(* adapters, and the scan_plans and audit_log tables (state.py).           *)
(*                                                                         *)
(* The actors are the threads that can be inside this code at one moment:  *)
(* the polling loop of a process (a daemon thread in "serve", the main     *)
(* thread in "watch"), and its MCP tool calls, which the server runs one   *)
(* after another.  They share the store and the backends and hold no lock  *)
(* between two accesses, so every store access and every request to a      *)
(* backend is a step of its own.                                           *)
(***************************************************************************)
EXTENDS Integers, Sequences, FiniteSets

CONSTANTS
    Actor,
    Mcp,             \* the actors that serve MCP calls; the others are loops
    Match,           \* what the correlation can hand over
    Plan,            \* plan ids (uuid4: an id is never drawn twice)
    Backend,         \* backends with credentials and a policy template
    primary_backend,
    Tag,
    TagsOfFamily,    \* scan.tag_mapping: the tags of a match's plugin family
    NoPlan,          \* no row in scan_plans, or no plan yet
    auto_scan_allow_tags, max_launches_per_window, window_hours, \* guardrails
    CallsMayFail,    \* a request or a store access may raise, or a kill end it
    MaxTime,         \* bound: the last instant of the clock
    MaxScans         \* bound: the scans one backend runs

ASSUME ActorAssumption == IsFiniteSet(Actor) /\ Mcp \subseteq Actor

ASSUME BackendAssumption ==
    /\ primary_backend \in Backend
    /\ TagsOfFamily \in [Match -> SUBSET Tag]
    /\ auto_scan_allow_tags \subseteq Tag

ASSUME LimitAssumption ==
    /\ max_launches_per_window \in Nat /\ window_hours \in Nat
    /\ MaxTime \in Nat /\ MaxScans \in Nat
    /\ CallsMayFail \in BOOLEAN

PlanRow ==
    [match : Match, backend : Backend, tags : SUBSET Tag, consumed : BOOLEAN]

ASSUME NoPlanAssumption == NoPlan \notin PlanRow /\ NoPlan \notin Plan

Scan == [plan : Plan, tags : SUBSET Tag, at : Nat, by : Actor]

LaunchRow ==
    [match : Match, backend : Backend, tags : SUBSET Tag, scan : Nat, ts : Nat]

Decision == [event : {"proposed", "rejected", "dry_run"}, match : Match]

\* The gate has let the call through and its outcome is not recorded yet.
Approved == {"launch_scan", "mark_consumed", "audit_launched"}

\* The scan of the call runs at the backend and is not recorded yet.
Started == {"mark_consumed", "audit_launched"}

(* The local variables of a call: the plan's id and row (in propose_scan   *)
(* the row to be saved, in launch_targeted_scan the row that was read) and *)
(* the id of the scan.                                                     *)
Call ==
    [pc : {"idle", "save_plan", "audit_proposed", "get_plan", "evaluate",
           "audit_rejected", "audit_dry_run"} \cup Approved,
     plan : Plan \cup {NoPlan}, row : PlanRow \cup {NoPlan}, scan : Nat]

CallOf(label, p, row) == [pc |-> label, plan |-> p, row |-> row, scan |-> 0]

Idle == CallOf("idle", NoPlan, NoPlan)

VARIABLES
    dry_run,      \* guardrail: the kill switch, as the configuration has it
    now,          \* the clock
    scans,        \* backend -> the scans it was told to run; the index is the id
    scan_plans,   \* table: plan id -> row or NoPlan
    launched,     \* table audit_log: its "launched" rows, in id order
    decisions,    \* table audit_log: the other events it has for a match
    call,         \* what each actor is doing
    orphans       \* history: <<backend, id>> of scans whose call died early

tables == <<scan_plans, launched, decisions>>
world == <<dry_run, now, scans>>
vars == <<tables, world, call, orphans>>

At(a, label) == call[a].pc = label

TypeOK ==
    /\ dry_run \in BOOLEAN
    /\ now \in 0..MaxTime
    /\ scans \in [Backend -> Seq(Scan)]
    /\ scan_plans \in [Plan -> PlanRow \cup {NoPlan}]
    /\ launched \in Seq(LaunchRow)
    /\ decisions \subseteq Decision
    /\ call \in [Actor -> Call]
    /\ orphans \subseteq Backend \X Nat
    /\ \A a \in Actor :
           /\ ~ At(a, "idle") => call[a].plan # NoPlan /\ call[a].row # NoPlan
           /\ call[a].pc \notin {"idle", "save_plan"} =>
                  scan_plans[call[a].plan] # NoPlan

Init ==
    /\ dry_run \in BOOLEAN
    /\ now = 0
    /\ scans = [b \in Backend |-> <<>>]
    /\ scan_plans = [p \in Plan |-> NoPlan]
    /\ launched = <<>>
    /\ decisions = {}
    /\ call = [a \in Actor |-> Idle]
    /\ orphans = {}

GoTo(a, label) == call' = [call EXCEPT ![a].pc = label]

\* Mutant: the call never returns.
EndWithoutReturn(a) == call' = [call EXCEPT ![a].plan = NoPlan]

\* The call returns or raises.
End(a) == call' = [call EXCEPT ![a] = Idle]

\* Mutant: the row at the edge of the window is left out.
RowsInsideWindow ==
    {i \in DOMAIN launched : launched[i].ts > now - window_hours}

\* The "launched" rows that a count at this moment finds.
RecentRows ==
    {i \in DOMAIN launched : launched[i].ts >= now - window_hours}

count_launches_since == Cardinality(RecentRows)

-----------------------------------------------------------------------------
(* propose_scan                                                            *)

\* uuid4: an id that no plan has and no other call has drawn.
FreshPlan(p) == scan_plans[p] = NoPlan /\ \A a \in Actor : call[a].plan # p

(* resolve_tags_for_plugin asks the backend for the mapped tags one by one *)
(* and drops those it does not find.  The customer adds and removes tags   *)
(* at any time, so any of them may be found.  A loop proposes against the  *)
(* primary backend, an MCP call against any.                               *)
Propose(a, m, b, tags, p) ==
    /\ At(a, "idle")
    /\ a \in Mcp \/ b = primary_backend
    /\ tags \subseteq TagsOfFamily[m]
    /\ FreshPlan(p)
    /\ call' = [call EXCEPT
           ![a] = CallOf("save_plan", p, [match |-> m, backend |-> b,
                                          tags |-> tags, consumed |-> FALSE])]
    /\ UNCHANGED <<tables, world, orphans>>

SaveScanPlan(a) ==
    /\ At(a, "save_plan")
    /\ scan_plans' = [scan_plans EXCEPT ![call[a].plan] = call[a].row]
    /\ GoTo(a, "audit_proposed")
    /\ UNCHANGED <<launched, decisions, world, orphans>>

RecordDecision(a, event) ==
    decisions' = decisions \cup {[event |-> event, match |-> call[a].row.match]}

\* The audit row ends an MCP call; a loop goes on to launch its plan.
AuditProposed(a) ==
    /\ At(a, "audit_proposed")
    /\ RecordDecision(a, "proposed")
    /\ IF a \in Mcp THEN End(a) ELSE GoTo(a, "get_plan")
    /\ UNCHANGED <<scan_plans, launched, world, orphans>>

-----------------------------------------------------------------------------
(* launch_targeted_scan                                                    *)

\* get_scan_plan, and the check of its consumed flag: a call for a consumed
\* plan raises.  An MCP call may name any plan there is.
GetScanPlan(a, p) ==
    /\ scan_plans[p] # NoPlan
    /\ \/ At(a, "idle") /\ a \in Mcp
       \/ At(a, "get_plan") /\ p = call[a].plan
    /\ IF scan_plans[p].consumed
       THEN End(a)
       ELSE call' = [call EXCEPT ![a] = CallOf("evaluate", p, scan_plans[p])]
    /\ UNCHANGED <<tables, world, orphans>>

\* Mutant: off by one.
OverLimit == count_launches_since > max_launches_per_window

\* GuardrailGate.evaluate, whose one store access is the count.
RateLimited == count_launches_since >= max_launches_per_window

OnAllowList(a) == call[a].row.tags \cap auto_scan_allow_tags # {}

\* Mutant: the allow-list takes precedence over the kill switch.
AdmitsAllowListed(a) ==
    /\ ~ RateLimited
    /\ \/ a \in Mcp
       \/ ~ dry_run
       \/ OnAllowList(a)

\* An MCP call carries the human's approval, a loop's never does.
Admits(a) ==
    /\ ~ RateLimited
    /\ \/ a \in Mcp
       \/ ~ dry_run /\ OnAllowList(a)

Approve(a) ==
    /\ At(a, "evaluate")
    /\ Admits(a)
    /\ GoTo(a, "launch_scan")
    /\ UNCHANGED <<tables, world, orphans>>

Refuse(a) ==
    /\ At(a, "evaluate")
    /\ ~ Admits(a)
    /\ GoTo(a, IF ~ RateLimited /\ dry_run THEN "audit_dry_run"
                                           ELSE "audit_rejected")
    /\ UNCHANGED <<tables, world, orphans>>

AuditRefused(a) ==
    /\ \/ At(a, "audit_dry_run") /\ RecordDecision(a, "dry_run")
       \/ At(a, "audit_rejected") /\ RecordDecision(a, "rejected")
    /\ End(a)
    /\ UNCHANGED <<scan_plans, launched, world, orphans>>

\* Mutant: the caller's default, not the plan's backend.
DefaultBackend(a) == primary_backend

\* _adapter(plan_row["backend"]): where the plan was proposed.
LaunchBackend(a) == call[a].row.backend

(* launch_scan looks the plan's tags up again, and any may be gone by now. *)
StartScan(a, tags) ==
    LET b == LaunchBackend(a)
    IN  /\ At(a, "launch_scan")
        /\ tags \subseteq call[a].row.tags /\ tags # {}
        /\ Len(scans[b]) < MaxScans
        /\ scans' = [scans EXCEPT ![b] =
                        Append(@, [plan |-> call[a].plan, tags |-> tags,
                                   at |-> now, by |-> a])]
        /\ call' = [call EXCEPT ![a].pc = "mark_consumed",
                                ![a].scan = Len(scans[b]) + 1]
        /\ UNCHANGED <<tables, dry_run, now, orphans>>

\* No tag was found: "refusing to launch an unscoped scan" is an exception.
RefuseUnscoped(a) ==
    /\ At(a, "launch_scan")
    /\ End(a)
    /\ UNCHANGED <<tables, world, orphans>>

\* Mutant: the update matches no row.
MarkNothing(a) ==
    /\ At(a, "mark_consumed")
    /\ GoTo(a, "audit_launched")
    /\ UNCHANGED <<tables, world, orphans>>

MarkConsumed(a) ==
    /\ At(a, "mark_consumed")
    /\ scan_plans' = [scan_plans EXCEPT ![call[a].plan].consumed = TRUE]
    /\ GoTo(a, "audit_launched")
    /\ UNCHANGED <<launched, decisions, world, orphans>>

\* Mutant: the scan id is not passed on.
RowWithoutScan(a) ==
    [match |-> call[a].row.match, backend |-> call[a].row.backend,
     tags |-> call[a].row.tags, scan |-> 0, ts |-> now]

RowToRecord(a) ==
    [match |-> call[a].row.match, backend |-> call[a].row.backend,
     tags |-> call[a].row.tags, scan |-> call[a].scan, ts |-> now]

AuditLaunched(a) ==
    /\ At(a, "audit_launched")
    /\ launched' = Append(launched, RowToRecord(a))
    /\ End(a)
    /\ UNCHANGED <<scan_plans, decisions, world, orphans>>

-----------------------------------------------------------------------------
\* A request or a store access raises, its answer is lost, or the process is
\* killed.  When the scan had started, nothing will ever record it.
Fail(a) ==
    /\ CallsMayFail
    /\ ~ At(a, "idle")
    /\ End(a)
    /\ orphans' = IF call[a].pc \in Started
                  THEN orphans \cup {<<call[a].row.backend, call[a].scan>>}
                  ELSE orphans
    /\ UNCHANGED <<tables, world>>

Tick ==
    /\ now < MaxTime
    /\ now' = now + 1
    /\ UNCHANGED <<dry_run, scans, tables, call, orphans>>

Step(a) ==
    \/ \E m \in Match, b \in Backend, tags \in SUBSET Tag, p \in Plan :
           Propose(a, m, b, tags, p)
    \/ SaveScanPlan(a) \/ AuditProposed(a)
    \/ \E p \in Plan : GetScanPlan(a, p)
    \/ Approve(a) \/ Refuse(a) \/ AuditRefused(a)
    \/ \E tags \in SUBSET Tag : StartScan(a, tags)
    \/ RefuseUnscoped(a)
    \/ MarkConsumed(a) \/ AuditLaunched(a)
    \/ Fail(a)

Next == Tick \/ \E a \in Actor : Step(a)

Spec == Init /\ [][Next]_vars

-----------------------------------------------------------------------------
ScanIds == Backend \X (1..MaxScans)

AllScans == {s \in ScanIds : s[2] \in DOMAIN scans[s[1]]}

ScanAt(s) == scans[s[1]][s[2]]

RecentScans == {s \in AllScans : ScanAt(s).at >= now - window_hours}

InFlight == {a \in Actor : call[a].pc \in Approved}

Recorded(s) ==
    \E i \in DOMAIN launched : launched[i].backend = s[1] /\ launched[i].scan = s[2]

StartedBy(a, s) ==
    /\ call[a].pc \in Started
    /\ call[a].row.backend = s[1] /\ call[a].scan = s[2]

(* The rate limit as the code can keep it: the calls between the check     *)
(* and the record are the only ones the check cannot see, so the launches  *)
(* counted and the launches under way exceed the limit by less than the    *)
(* number of actors (guardrails.py:37, scheduler.py:171-205).              *)
LaunchesBounded ==
    count_launches_since + Cardinality(InFlight)
        <= max_launches_per_window - 1 + Cardinality(Actor)

(* The same of the scans that really run: those started in the last        *)
(* window, other than the ones whose call died before it was recorded,     *)
(* stay below the limit plus the number of actors.                         *)
ScanStormBounded ==
    Cardinality(RecentScans \ orphans)
        <= max_launches_per_window - 1 + Cardinality(Actor)

(* Every scan at a backend is recorded with its plan consumed, or its call *)
(* is still on the way to it, or that call died (scheduler.py:195-205).    *)
EveryScanAccounted ==
    \A s \in AllScans :
        \/ s \in orphans
        \/ \E a \in Actor : StartedBy(a, s)
        \/ Recorded(s) /\ scan_plans[ScanAt(s).plan].consumed

(* An audit row says what happened: there is such a scan at that backend,  *)
(* it is of a plan proposed against that backend with the tags of the row, *)
(* and it reaches no other tag; no scan is recorded twice.                 *)
LaunchedRowsTrue ==
    /\ \A i \in DOMAIN launched :
        LET row == launched[i]
            s == <<row.backend, row.scan>>
        IN  /\ s \in AllScans
            /\ ScanAt(s).at <= row.ts
            /\ LET origin == scan_plans[ScanAt(s).plan]
               IN  /\ origin.match = row.match /\ origin.backend = row.backend
                   /\ origin.tags = row.tags
                   /\ ScanAt(s).tags \subseteq row.tags
    /\ \A i, j \in DOMAIN launched :
        launched[i].backend = launched[j].backend /\ launched[i].scan = launched[j].scan
            => i = j

(* One actor launches one plan once, unless its first call died after the  *)
(* scan had started: the consumed flag is set before the actor can come    *)
(* back to the plan.                                                       *)
OncePerActor ==
    \A s, t \in AllScans \ orphans :
        ScanAt(s).plan = ScanAt(t).plan /\ ScanAt(s).by = ScanAt(t).by => s = t

(* What the loop starts by itself: never under dry_run, never an unscoped  *)
(* scan, never one whose plan has no tag on the allow-list.                *)
UnattendedScansAdmitted ==
    \A s \in AllScans :
        LET run == ScanAt(s)
        IN  run.by \notin Mcp =>
                /\ ~ dry_run
                /\ run.tags # {}
                /\ scan_plans[run.plan].backend = primary_backend
                /\ scan_plans[run.plan].tags \cap auto_scan_allow_tags # {}

Register == INSTANCE ScanRegister WITH
    ScanId   <- ScanIds,
    running  <- {<<s, ScanAt(s).plan>> : s \in AllScans},
    consumed <- {p \in Plan : scan_plans[p] # NoPlan /\ scan_plans[p].consumed},
    recorded <- {<<launched[i].backend, launched[i].scan>> : i \in DOMAIN launched},
    orphaned <- orphans

(* The calls together keep the register: a plan is consumed only for a     *)
(* scan of it that runs, a scan is recorded only when its plan is consumed *)
(* (scheduler.py:195-205), a call that has died records nothing any more,  *)
(* and no flag, row or scan is ever taken back by a call that interleaves. *)
ImplementsRegister == Register!Spec

(* README.md:108 "a hard cap that applies even to human-approved launches":*)
(* no window holds more scans than max_launches_per_window.                *)
HardCap == Cardinality(RecentScans) <= max_launches_per_window

(* README.md:105 "only scans scoped to these tags may launch               *)
(* automatically": a scan the loop starts reaches an allow-listed tag.     *)
UnattendedScansOnAllowList ==
    \A s \in AllScans :
        ScanAt(s).by \notin Mcp => ScanAt(s).tags \cap auto_scan_allow_tags # {}
===============================================================================
