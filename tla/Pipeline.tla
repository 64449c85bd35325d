-------------------------------- MODULE Pipeline --------------------------------
(***************************************************************************)
(* The whole way from a published plugin to a scan plan (scheduler.py):    *)
(* the cycles of run_forever, each of which polls the two feeds,           *)
(* correlates, saves the cursor and proposes a scan for every match; and   *)
(* beside them the MCP tools correlate_exploited_plugins and               *)
(* list_new_plugins, which read the same cursor, feeds and tables.         *)
(*                                                                         *)
(* Composed of CorrelationEngine (the calls of run_cycle of the            *)
(* correlation) and PluginFeed (the polls).  propose_scan and              *)
(* launch_targeted_scan, which LaunchPath models step by step, are one     *)
(* step here: what matters is which matches get that far.                  *)
(***************************************************************************)
EXTENDS CorrelationEngine

CONSTANTS
    Loop,              \* the engine of the polling loop; the others are tools
    Revisions,         \* plugin -> what may become of the feed's record of it
    NoEntries,         \* the KEV catalog has not been polled
    min_cvss,          \* the configured threshold, used by the loop
    MaxCalls,          \* bound: the calls of tools
    page_size, NoDate, FeedLag, MidnightInCycle, MaxDay

Record == [cves : SUBSET Cve, score : Score \cup {NoScore}]

Unpublished == [cves |-> {}, score |-> NoScore]

ASSUME PipelineAssumption ==
    /\ Loop \in Engine
    /\ Revisions \in [Plugin -> SUBSET (Record \X Record)]
    /\ PluginBatches = UNION {[keys -> Listing] : keys \in SUBSET Key}
    /\ min_cvss \in MinCvss
    /\ MaxCalls \in Nat

ASSUME FeedAssumption ==
    /\ page_size \in Nat \ {0}
    /\ FeedLag \in Nat /\ MaxDay \in Nat
    /\ MidnightInCycle \in BOOLEAN
    /\ NoDate \notin Int

VARIABLES
    today, dated, ahead, cursor, poll, unread, due, started, exposed, \* PluginFeed
    catalog,     \* the CVEs CISA lists
    info,        \* what the plugin feed says of each plugin
    plugins,     \* what each caller's poll of the plugin feed has returned
    kev_entries, \* what each caller's poll of the KEV catalog has returned
    stage,       \* where the loop's cycle stands
    todo,        \* the matches the loop has still to propose
    proposed,    \* history: the keys the loop has proposed a scan for
    dismissed,   \* history: the keys the loop has matched below its threshold
    calls,       \* how many calls of tools have begun
    taken        \* history: the keys a tool's call has matched

Feed == INSTANCE PluginFeed WITH Caller <- Engine

feedVars == <<today, dated, ahead, cursor, poll, unread, due, started, exposed>>
world == <<catalog, info>>
fetched == <<plugins, kev_entries>>
cycle == <<stage, todo, proposed, dismissed>>
tools == <<calls, taken>>
pipeVars == <<vars, feedVars, world, fetched, cycle, tools>>

PipeTypeOK ==
    /\ TypeOK
    /\ Feed!FeedTypeOK
    /\ catalog \subseteq Cve
    /\ info \in [Plugin -> Record]
    /\ plugins \in [Engine -> PluginBatches]
    /\ kev_entries \in [Engine -> (SUBSET Cve) \cup {NoEntries}]
    /\ stage \in {"sleep", "cycle", "save_cursor", "propose"}
    /\ todo \subseteq Match
    /\ proposed \subseteq Key
    /\ dismissed \subseteq Key
    /\ calls \in 0..MaxCalls
    /\ taken \subseteq Key
    /\ stage = "sleep" => poll[Loop].pc = "idle" /\ pc[Loop] = "idle"
    /\ stage \in {"sleep", "cycle"} => todo = {}

PipeInit ==
    /\ Init
    /\ Feed!FeedInit
    /\ catalog = {}
    /\ info = [p \in Plugin |-> Unpublished]
    /\ plugins = [c \in Engine |-> <<>>]
    /\ kev_entries = [c \in Engine |-> NoEntries]
    /\ stage = "sleep"
    /\ todo = {}
    /\ proposed = {}
    /\ dismissed = {}
    /\ calls = 0
    /\ taken = {}

-----------------------------------------------------------------------------
(* The world outside.                                                      *)

\* A plugin is published or updated; an update may change what it covers
\* and its score.
Publish(p) ==
    /\ Feed!Publish(p)
    /\ \E revision \in Revisions[p] :
        /\ info[p] = revision[1]
        /\ info' = [info EXCEPT ![p] = revision[2]]
    /\ UNCHANGED <<vars, fetched, cycle, catalog, tools>>

\* CISA adds a CVE to the catalog.
Exploit(cve) ==
    /\ cve \notin catalog
    /\ catalog' = catalog \cup {cve}
    /\ UNCHANGED <<vars, feedVars, fetched, cycle, info, tools>>

\* The updates of today that the cycle under way has not had in its range.
NotInCycle ==
    IF stage \in {"cycle", "save_cursor"}
    THEN {p \in unread \ due[Loop] : dated[p] = today} ELSE {}

Midnight ==
    /\ MidnightInCycle \/ stage = "sleep"
    /\ Feed!Midnight(NotInCycle)
    /\ UNCHANGED <<vars, world, fetched, cycle, tools>>

-----------------------------------------------------------------------------
(* A cycle of the loop, and a call of a tool.                              *)

\* run_forever calls run_cycle, which reads the cursor and begins to poll.
BeginCycle ==
    /\ stage = "sleep"
    /\ Feed!BeginPoll(Loop)
    /\ stage' = "cycle"
    /\ UNCHANGED <<vars, world, fetched, todo, proposed, dismissed, tools>>

\* correlate, or list_new_plugins with no date of its own.
BeginTool(c) ==
    /\ c # Loop
    /\ pc[c] = "idle"
    /\ Feed!BeginPoll(c)
    /\ calls < MaxCalls /\ calls' = calls + 1
    /\ UNCHANGED <<vars, world, fetched, cycle, taken>>

\* What a poll has read, and with it the records of these plugins: they are
\* appended, in the version the feed has at this moment.
WithRecordsOf(batch, items) ==
    LET new == {key \in Key : key[2] \in items /\ key[1] \in info[key[2]].cves}
    IN  [key \in DOMAIN batch \cup new |->
            LET score == IF key \in new THEN info[key[2]].score ELSE batch[key].last
            IN  [first |-> IF key \in DOMAIN batch THEN batch[key].first ELSE score,
                 last  |-> score]]

FetchPage(c) ==
    /\ Feed!FetchPage(c)
    /\ plugins' = [plugins EXCEPT ![c] =
                      WithRecordsOf(@, Feed!Page(poll[c].since, poll[c].page))]
    /\ UNCHANGED <<vars, world, kev_entries, cycle, tools>>

\* The locals of a caller are gone.
Forget(c) ==
    /\ plugins' = [plugins EXCEPT ![c] = <<>>]
    /\ kev_entries' = [kev_entries EXCEPT ![c] = NoEntries]

\* list_new_plugins returns what it polled.
ReturnList(c) ==
    /\ c # Loop
    /\ poll[c].pc = "polled" /\ kev_entries[c] = NoEntries
    /\ Feed!DropPoll(c)
    /\ Forget(c)
    /\ UNCHANGED <<vars, world, cycle, tools>>

\* KevWatcher.poll returns the whole catalog.
PollKev(c) ==
    /\ poll[c].pc = "polled" /\ kev_entries[c] = NoEntries
    /\ kev_entries' = [kev_entries EXCEPT ![c] = catalog]
    /\ UNCHANGED <<vars, feedVars, world, plugins, cycle, tools>>

\* run_cycle of the correlation begins with what was polled.
Correlate(c, min) ==
    /\ poll[c].pc = "polled" /\ kev_entries[c] # NoEntries
    /\ c = Loop => min = min_cvss
    /\ UpsertPlugins(c, plugins[c], kev_entries[c], min)
    /\ Feed!Deliver(c)
    /\ Forget(c)
    /\ UNCHANGED <<world, cycle, tools>>

Lookup(c) ==
    /\ UpsertKev(c) \/ MatchNewPair(c) \/ MatchNewKev(c)
    /\ UNCHANGED <<feedVars, world, fetched, cycle, tools>>

\* The correlation of a tool's call returns: its matches go to the client.
ReturnTool(c) ==
    /\ c # Loop
    /\ Return(c)
    /\ taken' = taken \cup KeysOf(matches[c])
    /\ UNCHANGED <<feedVars, world, fetched, cycle, calls>>

\* The correlation of the loop returns.
ReturnCycle ==
    /\ Return(Loop)
    /\ todo' = {m \in matches[Loop] : MeetsThreshold(m, minCvss[Loop])}
    /\ dismissed' = dismissed \cup KeysOf(matches[Loop] \ todo')
    /\ stage' = "save_cursor"
    /\ UNCHANGED <<feedVars, world, fetched, proposed, tools>>

SaveCursor ==
    /\ stage = "save_cursor"
    /\ Feed!SaveCursor
    /\ stage' = "propose"
    /\ UNCHANGED <<vars, world, fetched, todo, proposed, dismissed, tools>>

\* propose_scan and launch_targeted_scan of one match.
ProposeScan ==
    /\ stage = "propose"
    /\ \E m \in todo :
        /\ todo' = todo \ {m}
        /\ proposed' = proposed \cup {KeyOf(m)}
    /\ UNCHANGED <<vars, feedVars, world, fetched, stage, dismissed, tools>>

\* Mutant: the cycle ends with its first match.
EndEarly ==
    /\ stage = "propose"
    /\ todo' = {}
    /\ stage' = "sleep"
    /\ UNCHANGED <<vars, feedVars, world, fetched, proposed, dismissed, tools>>

\* Mutant: the rest of the matches is left for the next cycle.
EndWithRest ==
    /\ stage = "propose"
    /\ stage' = "sleep"
    /\ UNCHANGED <<vars, feedVars, world, fetched, todo, proposed, dismissed, tools>>

\* The cycle returns its report, and run_forever sleeps.
EndCycle ==
    /\ stage = "propose"
    /\ todo = {}
    /\ stage' = "sleep"
    /\ UNCHANGED <<vars, feedVars, world, fetched, todo, proposed, dismissed, tools>>

-----------------------------------------------------------------------------
(* An access or a request raises, or the process is killed.                *)

\* In a poll: nothing has been kept of it.
FailPoll(c) ==
    /\ CallsMayFail
    /\ poll[c].pc # "idle"
    /\ Feed!DropPoll(c)
    /\ Forget(c)
    /\ stage' = IF c = Loop THEN "sleep" ELSE stage
    /\ UNCHANGED <<vars, world, todo, proposed, dismissed, tools>>

\* In the correlation.
FailCorrelation(c) ==
    /\ Abort(c)
    /\ stage' = IF c = Loop THEN "sleep" ELSE stage
    /\ UNCHANGED <<feedVars, world, fetched, todo, proposed, dismissed, tools>>

\* At the cursor, in propose_scan or in launch_targeted_scan: the matches the
\* cycle had not come to are dropped ("Cycle failed; will retry").
FailCycle ==
    /\ CallsMayFail
    /\ stage \in {"save_cursor", "propose"}
    /\ stage' = "sleep"
    /\ todo' = {}
    /\ lost' = lost \cup KeysOf(todo)
    /\ UNCHANGED <<store, local, fired, reported>>
    /\ UNCHANGED <<feedVars, world, fetched, proposed, dismissed, tools>>

StepOf(c) ==
    \/ FetchPage(c)
    \/ PollKev(c)
    \/ \E min \in MinCvss : Correlate(c, min)
    \/ Lookup(c)

FailOf(c) == FailPoll(c) \/ FailCorrelation(c)

LoopStep ==
    BeginCycle \/ StepOf(Loop) \/ ReturnCycle \/ SaveCursor \/ ProposeScan \/ EndCycle

ToolStep(c) == BeginTool(c) \/ StepOf(c) \/ ReturnList(c) \/ ReturnTool(c)

PipeNext ==
    \/ \E p \in Plugin : Publish(p)
    \/ \E cve \in Cve : Exploit(cve)
    \/ Midnight
    \/ LoopStep \/ FailCycle
    \/ \E c \in Engine : FailOf(c) \/ (c # Loop /\ ToolStep(c))

PipeSpec == PipeInit /\ [][PipeNext]_pipeVars

(* run_forever calls run_cycle again and again, and every call ends: each  *)
(* request has a timeout, and the loops over pages, pairs and matches are  *)
(* finite.  A request or an access may fail, but not for ever: a cycle     *)
(* that is tried again and again gets all its pages at last and commits    *)
(* what it polled.                                                         *)
CallsEnd ==
    /\ []<>(stage = "sleep")
    /\ \A c \in Engine \ {Loop} : []<>(pc[c] = "idle")

CycleGetsThrough ==
    []<>(poll[Loop].pc = "page") => []<>(pc[Loop] = "match")

PipeFairSpec == PipeSpec /\ WF_pipeVars(BeginCycle) /\ CallsEnd /\ CycleGetsThrough

-----------------------------------------------------------------------------
(* A poll delivers everything that was in its range when it began and has  *)
(* not been updated since, however the pages shift while it goes on: what  *)
(* moves to the front pushes the others to later pages, never to earlier   *)
(* ones.                                                                   *)
PollComplete ==
    \A c \in Engine : poll[c].pc = "polled" => due[c] \subseteq poll[c].plugins

(* From the first finished cycle on, an update that has not reached the    *)
(* store is in the range of the next poll: neither a poll that fails, nor  *)
(* an update while the pages are fetched or after them, is left behind by  *)
(* the cursor (plugin_watcher.py:3-5 "new or have been updated since the   *)
(* last successful cycle").  Two kinds of update may be: one the feed has  *)
(* dated before the host's today, and one published after a cycle began    *)
(* whose cursor is saved on a later day.                                   *)
NothingSlips ==
    started # NoDate =>
        \A p \in unread \ exposed : dated[p] >= started => dated[p] >= cursor

(* Every actionable pair is somewhere: a scan of it is proposed, or the    *)
(* loop has it still to propose, or a correlation in progress holds it, or *)
(* a tool's call has taken it, or it died with a call, or the loop has     *)
(* matched it and found its score of that moment below the threshold, for  *)
(* good: a later revision is only stored (state.py:164).  Between the      *)
(* store that remembers the rows and the list that will be proposed there  *)
(* is no other place to lose one.                                          *)
EveryPairAccounted ==
    \A key \in Actionable :
        \/ key \in proposed \cup KeysOf(todo) \cup taken \cup lost \cup dismissed
        \/ \E c \in Engine : Pending(c, key)

(* From the feed to the plan: an update of a plugin that covers an         *)
(* exploited CVE is proposed in the end, by whatever order its pages and   *)
(* its CVE arrived, or a tool's call took the pair, or it died with a call,*)
(* or the loop dismissed the pair for its score, or the cursor overtook    *)
(* the update at midnight or by the feed's calendar, or a later update     *)
(* took the CVE off the plugin.                                            *)
EveryUpdateProposed ==
    \A key \in Key :
        ( /\ key[1] \in catalog /\ key[1] \in info[key[2]].cves
          /\ key[2] \in unread
          /\ started # NoDate /\ dated[key[2]] >= started )
            ~> \/ key \in proposed \cup taken \cup lost \cup dismissed
               \/ key[2] \in exposed
               \/ key[1] \notin info[key[2]].cves

\* The ledger again, with the loop's proposals for its announcements.
Proposals == INSTANCE ExploitLedger WITH
    covered   <- {key \in Key : plugin_cve_index[key] # NoRow},
    exploited <- kev_cves,
    announced <- proposed

(* The loop, with the tools beside it and whatever fails, proposes a scan  *)
(* only of a pair whose two facts are committed by then, and no step takes *)
(* back a fact or a proposal (correlation.py "actionable the moment BOTH   *)
(* of these are true").                                                    *)
ProposalsImplementLedger == Proposals!Spec

\* No call is under way.
Quiet == stage = "sleep" /\ \A c \in Engine : pc[c] = "idle" /\ poll[c].pc = "idle"

(* mcp-servers/kev-pulse.md "so nothing is missed and nothing re-fires on  *)
(* repeat polls"; scheduler.py:368 "Cycle failed; will retry next          *)
(* interval": when the loop sleeps, every pair it has learned of is        *)
(* proposed.                                                               *)
NothingDropped ==
    Quiet => \A key \in Actionable :
                MeetsThreshold(MatchOfRow(key), min_cvss) => key \in proposed
===============================================================================
