# A TLA+ development of kev-pulse

kev-pulse watches two feeds, Tenable's plugins and CISA's catalog of known
exploited vulnerabilities (KEV), finds the pairs where a plugin detects a CVE
that is being exploited, and proposes or launches a scan for each, through a
gate of guardrails. It is a small program with several threads, several
processes, a shared SQLite file, two remote backends and a lock file; each part
is short, and what is hard is what happens between two of its steps. This
directory models those parts, model-checks them with TLC and proves the
invariants that matter most with TLAPS.

Source paths below are relative to `src/src/kev_pulse/`.

## 1. Inventory

| component | state it keeps | operations |
|---|---|---|
| State store (`state.py`) | tables `cursors`, `kev_cves`, `plugin_cve_index`, `scan_plans`, `audit_log` | `get/set_cursor`, `upsert_kev`, `is_kev`, `upsert_plugins`, `get_plugins_for_cve`, `save/get_scan_plan`, `mark_scan_plan_consumed`, `record_audit`, `count_launches_since`, `get_audit_history`, `get_backend_for_scan_id` |
| Correlation engine (`correlation.py`) | lists of one call | `run_cycle` |
| Guardrail gate (`guardrails.py`) | none of its own: it counts audit rows | `evaluate` |
| Pipeline (`scheduler.py`) | none of its own beside a call's locals | `propose_scan`, `launch_targeted_scan`, `run_cycle`, `correlate`, `get_scan_status`, read tools |
| Watch lock and loop (`scheduler.py`) | the file `<db>.watch.lock`, an exit handler | `_acquire_watch_lock`, `_pid_alive`, `_release_watch_lock`, `run_forever` |
| Backend adapters (`backends/`) | TSC: a session token | `resolve_tags_for_plugin`, `build_scan_plan`, `launch_scan`, `get_scan_status` |
| Feeds (`feeds/`) | none | `poll` |
| MCP server (`server.py`) | the pipeline, the loop's thread | the tools, `main` |
| Configuration (`config.py`) | none | `load_config` |
| Records (`models.py`) | none | data classes |

**How they interact.** A process runs `serve` (MCP tools, and with
`autonomous_in_serve` the loop as a daemon thread) or `watch` (the loop only).
The loop and the tools call one `Pipeline`, which calls the feeds, the
correlation engine, the gate, the adapters and the store. The store's lock
covers one method. No lock covers two: between any two accesses of one thread
another may do anything. Other processes share the database file and the lock
file, each through a connection of its own. The two feeds and the two backends
are remote and change by themselves.

**What is hard.** Two calls of the correlation interleave, or one of them dies
half way; a cycle dies between its upserts and its last launch; a tool polls
and correlates beside the loop; the feed changes between two of its pages, and
the date between a poll and its cursor; a plugin's score and CVEs are revised
between two polls; a store method raises between two
statements, or meets another process between its SELECT and its INSERT; the
rate check, the launch and its audit row are three steps; a plan is checked for
`consumed` long before it is marked; tags come and go between proposal and
launch; a request fails after it took effect; the lock file is created, read
and removed by processes that may be killed at any point and whose pids are
reused, also by processes that have nothing to do with the loop; credentials
and the primary backend change between two runs of a server. `PROJECT.json` lists
these hazards at their lines.

**What makes each part correct.**

- Store: each new row is handed to one caller; rows never disappear; every
  process sees upserts as single steps.
- Correlation: no actionable pair is lost but with a call that dies, none is
  announced twice for one reason, and none without both of its facts.
- Feeds and cursor: every published update is in some poll, unless the cursor's
  date overtakes it (section 3, "the date").
- Cycle: what is learned is proposed, whatever calls run beside the loop,
  unless a call takes it, dies with it, or finds its score below the threshold.
- Gate and launch: the limit is exceeded by no more than the calls in flight;
  every scan that runs is recorded truthfully and its plan consumed; the loop
  launches only what the gate may admit.
- Watch lock: one loop at most, but beside a `serve` process that has released
  the lock and is on its way out; and a leftover lock keeps no one out, unless
  an unrelated process has got its pid.
- Configuration: one bad backend block does not take the other with it, and the
  primary backend is the one the comments promise.

## 2. Modules

| module | models |
|---|---|
| `StateStore` | the tables' methods as functions from a table to a table or a result |
| `StoreTransactions` | the same methods one SQL statement at a time, by several processes |
| `AtomicStore` | abstract: upserts of one step |
| `CorrelationEngine` | concurrent calls of `CorrelationEngine.run_cycle`, over `StateStore` |
| `ExploitLedger` | abstract: what the correlation promises |
| `PluginFeed` | `PluginWatcher.poll` against a feed that changes, and the date cursor |
| `Pipeline` | the cycles of `run_forever` and the tools beside them: `CorrelationEngine` and `PluginFeed` composed |
| `LaunchPath` | `propose_scan`, `launch_targeted_scan`, `GuardrailGate.evaluate`, the adapters' launches, the plan and audit tables |
| `ScanRegister` | abstract: what the launches promise of the backends' scans |
| `WatchLock` | the pid lock of the loop, system call by system call |
| `BackendSelection` | `load_config`'s choice of backends, over runs of the server with changing settings |
| `MCCorrelation`, `MCPipeline`, `MCLaunch`, `MCWatchLock` | instances for TLC |
| `CorrelationProofs`, `PipelineProofs`, `FeedProofs`, `StoreProofs`, `LaunchProofs`, `LaunchScanProofs`, `WatchLockProofs`, `BackendSelectionProofs` | theorems |

**StateStore and CorrelationEngine.** `kev_cves` and `plugin_cve_index` are the
tables; `entries`, `newPairs`, `newKevIds` and `matches` are the locals of a call. The
actions follow the code's store accesses: `UpsertPlugins` (the call begins, and
its first access), `UpsertKev`, `MatchNewPair` (one `is_kev` of direction 1),
`MatchNewKev` (one `get_plugins_for_cve` of direction 2), `Return` (the
threshold filter), and `Abort` (an exception or a kill between two accesses).
The KEV poll and the plugin poll are inputs: any set of CVEs, any batch of
`PluginBatches`. A batch maps each pair it lists to the scores of the first and
the last record that list it: the first is what a new pair is matched with, the
last is what the row keeps. The order of the two `for` loops over new pairs and new ids is
left open, and the text of a match is left out. `fired`, `reported` and `lost`
are history variables; `lost` has the actionable pairs that a call held when it
died.

**ExploitLedger.** Facts of two kinds arrive in any order, and a pair is announced
only when both are there.
`CorrelationEngine!Ledger` instantiates it with the rows of the index, the KEV
table and the keys that finished calls have matched.

**StoreTransactions and AtomicStore.** That a method is one step is itself a
claim: `_cursor` commits at the end, rolls nothing back, and its lock covers
one process. The module follows one table through SELECT, INSERT, UPDATE and
COMMIT by several connections. `DuplicateKey` is the IntegrityError of a row
another process has added since the SELECT; `WriteRefused` and `CommitRefused`
are "database is locked"; `Raise` leaves the transaction open, and the next
`Commit` of that connection, a query's included, makes its rows durable.
`Kill` ends the process and rolls back, before or after the COMMIT took effect.
What sqlite does is external: a writer excludes writers from its first write to
its end, an open transaction that has read keeps other connections from
committing. `handed` counts how often a row was returned as new, `orphan` has
the rows of calls that raised or died. The refinement maps `handed` to the set
of rows handed out and shows that each commit is one `Upsert`, which may bring
orphans with it. In `CorrelationEngine` a call that raises before its upsert
commits is one whose row is inserted late and for no one: the same as an upsert
of another call that dies at once, `UpsertPlugins` and `Abort`.

**PluginFeed.** `dated` is the date of each plugin's last update and `ahead[p]`
the plugins updated after `p`, which the feed lists before it. A query is a
date and a page; `Rank` counts the plugins the answer has before one, and
`Page` is the plugins of `page_size` ranks in a row. `FetchPage` is one
request, and `Publish` may move a plugin to the front between two of them.
`BeginPoll` takes the cursor, or today when there is none; `SaveCursor` sets it.
`unread` (updates that no poll has brought to the store), `due` (what a poll
owes its caller and has not changed since) and `started` (the first day the
cursor was saved) are history. So is `exposed`, the updates that the cursor may
overtake: those the feed dates before the host's today (`Publish`, with a
`FeedLag`), and those of the old day that a cycle under way over midnight does
not have in its poll though its cursor will be the new day (`Midnight`). An
update is taken out again when its plugin is updated anew. The order of the
answer is the feed's and an assumption: the code asks for none.

**Pipeline.** `stage` and `todo` are where the loop's cycle stands and the
matches it has still to propose. `BeginCycle`, `FetchPage`, `PollKev`,
`Correlate`, `Lookup`, `ReturnCycle`, `SaveCursor`, `ProposeScan`, `EndCycle` are
`run_cycle` line by line; `BeginTool`, `ReturnList` and `ReturnTool` the tools.
`info` is what the feed says of each plugin. `Publish` sets it, to any record
that `Revisions` allows after the present one: an update may raise or lower the
score, add a CVE or take one off. `plugins` and `kev_entries` are what a caller
has polled. A page brings the records of its plugins as they are at that moment
(`WithRecordsOf`), and the whole catalog comes with one request (`PollKev`); both
may be stale by the time they are upserted, and both are gone when the call hands
them on or fails (`Forget`). `FailPoll`, `FailCorrelation` and `FailCycle` are an exception or a kill in
each part. `proposed` has the keys the loop got through `propose_scan`, `dismissed` those
it matched with a score below its threshold, `taken` those a tool's call matched,
whatever its threshold let through. A dismissed pair stays so: a revision that
raises its score refreshes the row and matches nothing (finding 1). `Proposals`
instantiates `ExploitLedger` once more, with `proposed` for what is announced.

**LaunchPath.** An actor is a thread that can be inside this code: the loop,
or the MCP tool calls of a process, which the server runs one after another.
`call[a]` holds where it stands and its locals. `Propose` is the part of
`propose_scan` up to the saved row, with the tags the backend happens to have;
`SaveScanPlan` and `AuditProposed` are its two writes. `GetScanPlan` reads the
row and the `consumed` flag; `Approve` and `Refuse` are the gate, whose one
store access is the count; `StartScan` is `launch_scan` with the tags looked up
again, `RefuseUnscoped` its exception when none is found; `MarkConsumed`
and `AuditLaunched` are the two writes after it. `Fail` ends a call at any
access, also after the scan has started, which covers an answer that is lost.
`Tick` moves the clock. `scans` is the remote side: what the backends were told
to run. `orphans` is a history variable of the scans whose call died before it
recorded them. Only the `launched` rows of the audit log carry a time, since
only they are counted.

**ScanRegister.** It knows no calls and no gate: a scan is started for a plan,
the plan is consumed for a scan of it that is still open, and then the scan is
recorded, or it is orphaned first. `LaunchPath!Register` instantiates it with
the scans at the backends, the `consumed` flags, the `launched` rows and the
orphans. A second scan of one plan is allowed, since two calls may have read
the flag before either set it; what the register rules out is a record without
the flag, a second record, a record of a scan whose call is dead, and a flag, a
row or a scan that is taken back.

**WatchLock.** A slot of `Proc` runs one process after another with the pid
`PidOf[p]`, and two slots may have one pid, not at the same time. `TryCreate`,
`WritePid`, `ReadPid`, `Probe`, `Remove` and `TryAgain` are
`_acquire_watch_lock`. `Exit` is the beginning of a normal exit, `ReleaseCheck`
and `ReleaseRemove` the two accesses of the exit handler, and with `End` the
process is gone; `Crash` kills a process anywhere. The slots of `Serve` run
`serve` processes, whose loop is a daemon thread: it is not stopped by the exit
handler and runs until the process is gone (`RunsLoop`), while the loop of a
`watch` process has ended before the handler runs. `others` has the pids of the
host's live processes without a part in the loop, `serve` processes without it
included; they come and go (`OtherStarts`, `OtherEnds`) and may get any pid that
is free, a leftover lock's too. `PidAlive` is `os.kill(pid, 0)`: it finds any live
process, whatever it runs. `File.by` is the process whose descriptor the
file is, so that a pid is written into the file its process created even when
another file is at the path by then. `StartsOverlap = FALSE` restricts the
starts to one at a time.

**BackendSelection.** `file` and `env` are the YAML file and the environment,
as far as the choice of backends reads them; `Settings` is what the `Pipeline`
object is built with. The server starts, or `load_config` raises, and the user
changes variables between two runs. A variable may be set, not set, or hold the
text of a template, as Claude Desktop leaves it for a blank field. Literal
credentials in a block, which need no environment, are left out. What becomes of
a plan's backend at its launch is `LaunchPath`'s (`LaunchedRowsTrue`).

## 3. Runs

| run | expects | properties | what it shows |
|---|---|---|---|
| `correlation_calls` | pass | `TypeOK`, `NothingMissed`, `OneMatchPerCall`, `AtMostOncePerDirection`, `EventuallyAnnounced`, `ImplementsLedger` | two calls interleaved at every access, which may die at any: nothing is lost but with them, nothing re-fires, and they implement the ledger |
| `correlation_revised` | violation | `UpdatedPluginReported` | a plugin revised above the threshold is never reported |
| `store_processes` | pass | `TypeOK`, `HandedOnce`, `RowsOwned`, `OpenOnlyAfterRaise`, `ImplementsAtomicStore` | three processes, statement by statement: upserts are single steps all the same |
| `pipeline_cycle` | pass | `PipeTypeOK`, `EveryPairAccounted`, `PollComplete`, `NothingSlips`, `EveryUpdateProposed`, `ProposalsImplementLedger` | the loop and a tool over a feed that changes, with midnight at any time: which updates the cursor can overtake, that every pair is accounted for whatever the feed revises, and that the proposals implement the ledger |
| `pipeline_failed` | violation | `NothingDropped` | a cycle that fails after its upserts loses its matches for good |
| `launch_calls` | pass | `TypeOK`, `LaunchesBounded`, `ScanStormBounded`, `EveryScanAccounted`, `OncePerActor`, `LaunchedRowsTrue`, `UnattendedScansAdmitted`, `ImplementsRegister` | the rate limit, the accounting and the scope of scans, and that the calls implement the register, under failures, time, two backends and vanishing tags |
| `launch_hard_cap` | violation | `HardCap` | the check and the record are two steps |
| `launch_allow_list` | violation | `UnattendedScansOnAllowList` | the tag that was checked need not be a tag that is scanned |
| `watch_lock_serial` | pass | `TypeOK`, `OneLoopUntilRelease`, `LooperOwnsLock`, `StaleLockReclaimed`, `DeniedForALivePid` | what the lock ensures when starts do not overlap: one loop up to its release, and a denial only for a live pid |
| `watch_lock_overlap` | violation | `OneLoop` | even among `watch` processes there are two loops when starts overlap |
| `config_restarts` | pass | `TypeOK`, `SettingsAsDocumented`, `BlankFieldHarmless`, `BadBlockHarmless` | every file and environment of the model's shape, and settings that change between runs |
| `config_shipped` | violation | `SecurityCenterOnlyWorks` | the shipped file does not start with Security Center's credentials only |

**Bounds.**

- Correlation: two CVEs and two plugins, one of which covers both CVEs and one
  of which has no score. A property is about one pair or about the two keys
  that share a CVE or a plugin, so two of each are enough for every sharing.
  Two calls suffice for each to insert one half of a pair, with the other
  dying at any access; `CorrelationProofs` has any number.
- Store: three connections, so that one can hold the write lock, one be refused
  and one commit; two rows, so that a call can raise between two INSERTs. The
  counts of `handed` are bounded by the property they are there for.
- Pipeline: one CVE, one plugin that covers it and one that covers none and
  only takes a place; `page_size = 1`, so that a poll of two plugins has three
  requests and an update can come between any two; the days 0 and 1 (`MaxDay`),
  with an update of a plugin on each; the loop and one tool that is called once
  (`MaxCalls = 1`), which suffices to take a pair. `Revised` has the first plugin
  published below the threshold (40 against 70, in tenths) and then raised to 98
  or its CVE taken off, so that a pair is dismissed and then revised, upserted
  at either score, or polled and gone; the second is published once. The run has
  866 917 states. The theorems have every set of revisions, any number of tools
  and calls.
- Pipeline, the date: `MidnightInCycle = TRUE` lets the date change at any
  moment, also between a poll and its cursor, and `FeedLag = 0` gives the host
  and the feed one calendar; the theorems have every `FeedLag`. An update
  between the last page and midnight is dated before the cursor that is saved
  after midnight, and one on the feed's yesterday is out of the range of the
  host's today. Both are in `exposed`, and `NothingSlips` and
  `EveryUpdateProposed` promise nothing of them. The documents make no such
  exception: `feeds/plugin_watcher.py:3-5` polls what has been "updated since the
  last successful cycle", and `mcp-servers/kev-pulse.md:71-73` says that "nothing
  is missed". So the code disagrees with them in both cases; no run
  states the sentence without the exception, and the two lines are listed as
  hazards. `pipeline_failed` has `MidnightInCycle = FALSE`, which its
  counterexample does not need.
- Launch: one match; two plans, so that one is launched by a call while the
  other is; two tags, one on the allow-list; two backends; a limit of 1, and a
  window of 0 hours with two instants (`MaxTime = 1`), so that a row is on the
  window's edge or outside; two scans at a backend at most (`MaxScans`), one more than the
  limit. `LaunchProofs` and `LaunchScanProofs` have every limit and window.
- Watch lock: three slots, two of them with one pid, and other processes with
  either pid. Two slots at most live at once: two `serve` processes, or one beside a
  `watch` process (`Serve = {p1, p2}`). The run with
  overlapping starts has `Serve = {}`, since a `serve` process would be a
  counterexample even without them. The state space is finite without further
  bounds.
- Configuration: no bound; the two types are the program's own, and the
  invariants are checked for every file and environment there is in the model.
- `MaxTime`, `MaxScans`, `MaxDay` and `MaxCalls` stand in the guards of `Tick`,
  `StartScan`, `Midnight` and `BeginTool`. All runs check for deadlock.

**Symmetry** is used for plan ids in the launch runs, which check no liveness.
`launch_calls` also has a `VIEW` without `decisions`, which is only ever written:
no guard, and of the properties only its type, reads it, so states that differ
in nothing else need not be told apart.

**Fairness.** `CorrelationEngine!FairSpec` has weak fairness of the steps of a
call that has begun, since a call runs straight on through local code and
local SQLite accesses, and none of its start, which is up to the interval and
the clients, nor of `Abort`. `EventuallyAnnounced` therefore says "announced, or
lost with a call". `WatchLock!FairSpec`
has weak fairness of the steps between two system calls of a starter, and none
of starts, exits and kills, so `StaleLockReclaimed` says "runs the loop, or was
killed, or was denied for a pid that an unrelated process had by then". Both are wait-free: no step waits for another process.
`Pipeline!PipeFairSpec` has weak fairness of the loop's next cycle
(`while True`, `scheduler.py:355`). `CallsEnd` says that a cycle and a tool's
correlation end, by a return or by an exception: every request has a timeout
(`plugin_watcher.py:64`, `kev_watcher.py:33`), and what is looped over is
finite. A request or an upsert of the loop may fail, and the cycle is then begun
anew: `CycleGetsThrough` says that a cycle that polls again and again has both
of its upserts committed again and again, and nothing of what comes after them.
Nothing is
assumed of the feeds, of the clients' calls or of failures.

Every property of a passing run is paired with a mutant, an operator beside the
one it replaces, under the comment "Mutant".

## 4. Findings

1. `UpdatedPluginReported`: `upsert_plugins` refreshes the row of a known key
   and does not return it (`state.py:164`), so a plugin first published at a
   low score and revised later never matches; `correlation.py:10` speaks of
   "a brand new/updated plugin".
2. `HardCap`: the loop and an MCP call both pass the rate check before either
   is recorded (`guardrails.py:37`, `scheduler.py:195-205`); the README calls
   the limit "a hard cap". The docstring of `_acquire_watch_lock` knows of
   this across processes; it holds within one process as well.
   `LaunchesBounded` and `ScanStormBounded` say how far it can go.
3. `UnattendedScansOnAllowList`: the gate sees the plan's tags, the scan those
   that still exist (`scheduler.py:171`, `backends/tvm_adapter.py:94`).
4. `OneLoop` with overlapping starts: an empty lock file is read as stale, and
   a reclaimer removes the file another has just created (`scheduler.py:319-333`);
   `scheduler.py:296-297` says "only one live process ever runs the loop".
5. `NothingDropped`: a cycle that raises after its upserts drops its matches,
   and no later cycle finds their rows new (`scheduler.py:232`);
   `mcp-servers/kev-pulse.md:71-73` says "nothing is missed", and the log
   "will retry next interval". `EveryPairAccounted` shows that a call that
   fails, a tool's call and the threshold (a later revision of the score is only
   stored, finding 1) are the only ways to lose one that is in the store.
6. `SecurityCenterOnlyWorks`: the shipped file with only `TSC_*` set raises at
   the plugin feed's own `access_key_env` (`config.py:282`), and with the
   templates of blank fields at the policy template (`config.py:323`);
   `config.example.yaml:30-33` says it works with "no further edits".

Four more disagreements are known and have no run of their own; a property that
passes excepts each of them by name.

- An `auth:` with nothing under it raises an `AttributeError` that no one catches
  (`config.py:146`), and so takes the other block down with it, against
  `config.py:173-175`: `Breaks`, the exception of `BadBlockHarmless`.
- A `serve` process gives the lock up in its exit handler (`scheduler.py:276`)
  while its daemon thread still polls (`server.py:281-288`), so a process that
  starts just then loops beside it, with no overlap of starts, against
  `scheduler.py:296-297`: the exception of `OneLoopUntilRelease`.
- A leftover pid that an unrelated process has by now keeps every starter out,
  with no loop anywhere: `others` in `StaleLockReclaimed` and `DeniedForALivePid`.
- The updates in `exposed`, under "the date" in section 3.

## 5. Proofs

All for every value of the constants, under the assumptions the modules name.
A theorem that needs more says so in an `ASSUME` of its own.

**CorrelationProofs.** Five theorems.

- `TypeCorrect`.
- `FiresAtMostOnce` (`[]AtMostOncePerDirection`, for any number of calls and any
  deaths). "At most once" is not inductive: a count is bounded only because no
  second call can come to hold the key. `OnceInv` says so: before a key's row
  is in the store no call holds the key and it has not fired; two calls never
  hold it; while one holds it, it has not fired. A step may take hold of a key
  only by inserting its row (`TakesOnlyNew`), and a return lets go of it.
- `NothingIsMissed` (`[]NothingMissed`, deaths included), with `ListsEmpty`:
  what the next access of a call overwrites is empty.
- `MatchesOncePerCall` (`[]OneMatchPerCall`), with `KeysApart`: a key still on the list of
  direction 1 is there once and not yet matched.
- `CallsImplementLedger` (`Spec => ImplementsLedger`): each upsert is a `Learn`, each return
  an `Announce`, everything else a stutter. `HeldInv` says that what a call
  holds has its row in the store, `AnnouncedInv` that an announced pair stays
  actionable.

**PipelineProofs.** `EveryPairIsAccounted` (`[]EveryPairAccounted`), for whatever
the feeds publish and revise. Every step of the pipeline is a step of the engine
or leaves it alone, so the lemmas of `CorrelationProofs` about one step are used
again. The invariant adds where a match goes when its call returns: a key that
has fired is on the list to propose, proposed, taken, lost or dismissed. It says
nothing of scores, which may change with every poll; the lists a poll
hands over are lists of the engine's type whatever the pages brought
(`RecordsType`), and that is all the engine asks of them.

Three more theorems are about the composition. `StepsOfTheEngine` shows that
each step of the pipeline is one of the engine's or leaves its tables, lists
and counts alone. So the engine's promises hold in the whole:
`PipelineFiresAtMostOnce` (`PipeSpec => []AtMostOncePerDirection`) and
`PipelineImplementsLedger` (`PipeSpec => ImplementsLedger`).
`ProposalsFollowTheFacts` (`PipeSpec => ProposalsImplementLedger`) carries the
refinement on to what the loop proposes: what is on the cycle's list came from
a return of the correlation, whose matches had both rows, and rows stay.

**FeedProofs.** `PipelineTypes` (`[]PipeTypeOK`), `PollsAreComplete`
(`[]PollComplete`), `NothingSlipsPastCursor` (`[]NothingSlips`) and
`NothingSlipsWithinADay`, for every page size, calendar lag and number of polls,
with midnight at any time.

- `OrderInv`: `ahead` is a strict total order of the published plugins, so their
  ranks in an answer are the numbers below its size, one each (`RanksFill`).
- `PageInv`: what a poll owes and has not read has a rank from the next page on.
  A publication raises the ranks of others and takes its own plugin out of what
  is owed (`PublishPushesBack`), and a page with a plugin behind it is full
  (`FullPage`), so a poll ends only when it owes nothing more.
- `SlipInv`: an unread update outside `exposed` is dated on the cursor's day or
  later, and, between the start of a cycle and its cursor, is of today or owed by
  the loop's poll. The second half makes it inductive: the cursor may become
  today because what is older is in the poll that reaches the store first.
- `NothingSlipsWithinADay`: with `FeedLag = 0` and no midnight in a cycle
  `exposed` stays empty, so `NothingSlips` has no exceptions.

**StoreProofs.** `TypeCorrect`; `RowsAreHandedOnce`, `RowsAreOwned`,
`RestsClosed`; `UpsertsAreAtomic` (`Spec => ImplementsAtomicStore`). The
invariant says where a row is before it is handed out: a row that was handed is
in the table, a call's new rows are pending in the transaction of the one
writer and were never handed to anyone, pending rows that are not a call's are
orphans. An INSERT is made only for a row in neither.

**LaunchProofs.** `TypeCorrect`; `RateLimitHolds` (`[]LaunchesBounded`, for a
non-empty set of actors); `OneActorKeepsTheCap`, its consequence that a
single actor never exceeds the limit. The bound is inductive together with the
type: an actor enters the part that counts only when the count is below
the limit, an actor that records leaves it, and a clock tick only lowers the
count. The argument is one about cardinalities of `RecentRows` and `InFlight`.

**LaunchScanProofs.** `ScansAreAccounted`, `AuditRowsAreTrue`,
`LaunchesOncePerActor`, `UnattendedAdmitted`, `ScanStormIsBounded` and
`CallsKeepTheRegister`. One
invariant carries them: a call between the start of its scan and its record
names a scan of its plan, backend and tags, that is its own and in no row; a
saved plan never changes but for `consumed`; a loop past the gate was admitted.
`ScanStormIsBounded` follows with the rate limit: each recent scan that is not
an orphan is a counted row or a call under way, so there is an injection from
the scans to the rows and the calls. `CallsKeepTheRegister` is the refinement
of `ScanRegister`. It adds to the invariant that a call past the start of its
scan is not the one whose death orphaned a scan of that number (`OrphansInv`):
then the scan of such a call is open in the register, so `MarkConsumed` consumes
for it (or stutters, when another call of the plan was first), `AuditLaunched`
records it and `Fail` orphans it. All other steps stutter.

**WatchLockProofs.** `TypeCorrect`; and when starts do not overlap
`LooperOwnsLockAlways`, `OneLoopUntilReleaseAlways` and `DeniedForALivePidAlways`
(an action property), for any slots, any mix of `serve` and `watch` processes and
any other processes on the host. `OneLoopAmongWatchers` is a consequence: when no
slot is a `serve` process, `OneLoop` itself holds. The invariant says that live
processes have different pids, none of them in `others`, that one process at most
is starting, that a process about to write its pid still finds the file it
created, that a starter about to remove the lock has no process beside it that
owns it, and that one about to probe has read the pid of the owner, if there is
one. The assumption is needed: `watch_lock_overlap` is the
counterexample without it.

**BackendSelectionProofs.** `TypesHold`, `RunsAsDocumented`,
`BlankFieldsAreHarmless` and `BadBlocksAreHarmless`. The
state space is finite but for the values that stand for a null, a missing block
and a single template, so what the proofs add to the run is the reason:
`StartedInv` says that a server that is up or has failed is what `load_config`
makes of the present settings, since no setting changes while it is; the rest
is about `load_config` alone. `PrimaryIsUsable` and `BothBlocksNeeded` are the
steps that matter: two usable backends come from two usable blocks, since one
block cannot provide both types, so `backend.type` is never that of an unusable
block, and a file with an unusable block has one backend at most.

**Only model-checked.** The liveness properties `EventuallyAnnounced`,
`StaleLockReclaimed` and `EveryUpdateProposed`, which rest on fairness: their
proofs need `ENABLED`, which the prover cannot treat. Every other property of a
passing run is a theorem. The runs that expect a violation are counterexamples
and have nothing to prove.

## 6. Not modelled

- Parsing and normalising feed records, HTTP headers and payloads, the text of
  logs and audit details, argument parsing and the MCP transport: data
  conversion and I/O without state that the properties read.
- `get_scan_status`, `get_backend_for_scan_id`, `get_audit_history`,
  `list_kev_deltas`, `resolve_affected_tags`: queries that change nothing.
- The EPSS half of the threshold never rejects, because `_to_match` leaves
  `epss` unset.
- The TSC session token: a request that fails is `Fail`, whatever the reason.
- Lock files over several hosts, containers or users, where a pid or the probe
  of it means something else; `NobodyAlive` is what becomes of `PidAlive` there.
- `LaunchPath` and `Pipeline` are not one module: the steps of a launch
  interleave with the correlation only through tables the other does not read.

## 7. What could follow

1. The status query by scan id over two backends, whose ids may coincide.
2. A cycle that saves the date of its poll instead of that of its end: with it
   `exposed` would have only what the feed dates before the host's today.
