--------------------------- MODULE CorrelationEngine ---------------------------
(***************************************************************************)
(* CorrelationEngine.run_cycle (correlation.py) called by several threads  *)
(* or processes at once over one database: the polling loop, and the MCP   *)
(* tool correlate_exploited_plugins, which runs the same code.             *)
(*                                                                         *)
(* A call makes one atomic store access at a time: upsert_plugins,         *)
(* upsert_kev, one is_kev per new pair (direction 1), one                  *)
(* get_plugins_for_cve per new KEV id (direction 2).  Between two accesses *)
(* another call may do anything.                                           *)
(***************************************************************************)
EXTENDS StateStore

CONSTANTS
    Engine,          \* the calls of run_cycle that can be in progress at once
    Cve, Plugin,
    Score,           \* CVSS scores, in tenths
    NoScore,         \* a plugin record without a CVSS score
    PluginBatches,   \* what a poll of the plugin feed can return
    MinCvss,         \* the thresholds a call can be made with
    CallsMayFail     \* TRUE: a call may be cut short by a store error or a kill

Key == Cve \X Plugin

Reason == {"plugin_new_cve_already_kev", "kev_new_plugin_already_exists"}

\* What a poll says of a pair: its score in the first and the last record.
Listing == [first : Score \cup {NoScore}, last : Score \cup {NoScore}]

NewPair == [cve : Cve, plugin : Plugin, score : Score \cup {NoScore}]

Match ==
    [cve : Cve, plugin : Plugin, score : Score \cup {NoScore}, reason : Reason]

ASSUME ScoreAssumption ==
    /\ Score \subseteq Int /\ MinCvss \subseteq Int
    /\ NoScore \notin Int
    /\ NoRow \notin Int /\ NoRow # NoScore

ASSUME BatchAssumption ==
    \A batch \in PluginBatches :
        DOMAIN batch \subseteq Key /\ batch \in [DOMAIN batch -> Listing]

ASSUME FailAssumption == CallsMayFail \in BOOLEAN

VARIABLES
    kev_cves,           \* table: CVE ids ever seen in KEV
    plugin_cve_index,   \* table: <<cve, plugin>> -> score or NoRow
    pc,                 \* where each call stands
    minCvss,            \* the threshold the call was made with
    entries,            \* the call's KEV entries, until they are upserted
    newPairs,           \* new pairs direction 1 has still to look at
    newKevIds,          \* new KEV ids direction 2 has still to look at
    matches,            \* the matches found so far
    fired,              \* history: how many calls matched a key for a reason
    reported,           \* history: the keys of the matches that calls returned
    lost                \* history: actionable keys that died with a call

store == <<kev_cves, plugin_cve_index>>
local == <<pc, minCvss, entries, newPairs, newKevIds, matches>>
history == <<fired, reported, lost>>
vars == <<store, local, history>>

TypeOK ==
    /\ kev_cves \subseteq Cve
    /\ plugin_cve_index \in [Key -> Score \cup {NoScore, NoRow}]
    /\ pc \in [Engine -> {"idle", "upsert_kev", "match"}]
    /\ minCvss \in [Engine -> MinCvss]
    /\ entries \in [Engine -> SUBSET Cve]
    /\ newPairs \in [Engine -> SUBSET NewPair]
    /\ newKevIds \in [Engine -> SUBSET Cve]
    /\ matches \in [Engine -> SUBSET Match]
    /\ fired \in [Key \X Reason -> Nat]
    /\ reported \subseteq Key
    /\ lost \subseteq Key

Init ==
    /\ kev_cves = {}
    /\ plugin_cve_index = [key \in Key |-> NoRow]
    /\ pc = [e \in Engine |-> "idle"]
    /\ minCvss \in [Engine -> MinCvss]
    /\ entries = [e \in Engine |-> {}]
    /\ newPairs = [e \in Engine |-> {}]
    /\ newKevIds = [e \in Engine |-> {}]
    /\ matches = [e \in Engine |-> {}]
    /\ fired = [f \in Key \X Reason |-> 0]
    /\ reported = {}
    /\ lost = {}

KeyOf(m) == <<m.cve, m.plugin>>

KeysOf(S) == {KeyOf(m) : m \in S}

\* _to_match for a new pair of direction 1: the score is the polled plugin's.
MatchOfPair(pair) ==
    [cve |-> pair.cve, plugin |-> pair.plugin, score |-> pair.score,
     reason |-> "plugin_new_cve_already_kev"]

\* _to_match for an index row of direction 2: the score is the row's.
MatchOfRow(key) ==
    [cve |-> key[1], plugin |-> key[2], score |-> plugin_cve_index[key],
     reason |-> "kev_new_plugin_already_exists"]

\* _meets_threshold.  The EPSS half never rejects: _to_match sets epss to None.
MeetsThreshold(m, min) == m.score = NoScore \/ m.score >= min

Actionable == {key \in Key : plugin_cve_index[key] # NoRow /\ key[1] \in kev_cves}

\* A call still has the key on one of its lists, and will match it.
Pending(e, key) ==
    \/ key \in KeysOf(newPairs[e])
    \/ key[1] \in newKevIds[e]
    \/ key \in KeysOf(matches[e])

-----------------------------------------------------------------------------
(* run_cycle is called with a poll result; its first access upserts the    *)
(* plugins.                                                                *)
UpsertPlugins(e, batch, kev, min) ==
    /\ pc[e] = "idle"
    /\ pc' = [pc EXCEPT ![e] = "upsert_kev"]
    /\ minCvss' = [minCvss EXCEPT ![e] = min]
    /\ entries' = [entries EXCEPT ![e] = kev]
    /\ newPairs' = [newPairs EXCEPT ![e] = NewPairs(plugin_cve_index, batch)]
    /\ plugin_cve_index' = IndexAfterUpsert(plugin_cve_index, batch)
    /\ UNCHANGED <<kev_cves, newKevIds, matches, history>>

UpsertKev(e) ==
    /\ pc[e] = "upsert_kev"
    /\ pc' = [pc EXCEPT ![e] = "match"]
    /\ newKevIds' = [newKevIds EXCEPT ![e] = NewKevIds(kev_cves, entries[e])]
    /\ kev_cves' = KevAfterUpsert(kev_cves, entries[e])
    /\ entries' = [entries EXCEPT ![e] = {}]
    /\ UNCHANGED <<plugin_cve_index, minCvss, newPairs, matches, history>>

\* Direction 1: one is_kev lookup for one new pair.
MatchNewPair(e) ==
    /\ pc[e] = "match"
    /\ \E pair \in newPairs[e] :
        /\ newPairs' = [newPairs EXCEPT ![e] = @ \ {pair}]
        /\ matches' =
            [matches EXCEPT ![e] =
                IF IsKev(kev_cves, pair.cve) THEN @ \cup {MatchOfPair(pair)}
                                             ELSE @]
    /\ UNCHANGED <<store, pc, minCvss, entries, newKevIds, history>>

\* Mutant: what direction 1 has matched is matched again.
AllRows(e, cve) == RowsForCve(plugin_cve_index, cve)

\* The rows of a CVE whose key the call has not matched yet.
UnmatchedRows(e, cve) == RowsForCve(plugin_cve_index, cve) \ KeysOf(matches[e])

\* Direction 2: one get_plugins_for_cve lookup for one new KEV id.
MatchNewKev(e) ==
    /\ pc[e] = "match"
    /\ newPairs[e] = {}
    /\ \E cve \in newKevIds[e] :
        /\ newKevIds' = [newKevIds EXCEPT ![e] = @ \ {cve}]
        /\ matches' =
            [matches EXCEPT ![e] =
                @ \cup {MatchOfRow(key) : key \in UnmatchedRows(e, cve)}]
    /\ UNCHANGED <<store, pc, minCvss, entries, newPairs, history>>

\* run_cycle returns the matches that meet the call's threshold.
Return(e) ==
    /\ pc[e] = "match"
    /\ newPairs[e] = {} /\ newKevIds[e] = {}
    /\ pc' = [pc EXCEPT ![e] = "idle"]
    /\ matches' = [matches EXCEPT ![e] = {}]
    /\ reported' =
        reported \cup KeysOf({m \in matches[e] : MeetsThreshold(m, minCvss[e])})
    /\ fired' =
        [f \in DOMAIN fired |->
            IF \E m \in matches[e] : f = <<KeyOf(m), m.reason>>
            THEN fired[f] + 1 ELSE fired[f]]
    /\ UNCHANGED <<store, minCvss, entries, newPairs, newKevIds, lost>>

\* The call raises or its process is killed between two store accesses: what
\* was committed stays, what the call held in memory is gone.  No row of an
\* actionable pair it held will be new to a later call.
Abort(e) ==
    /\ CallsMayFail
    /\ pc[e] # "idle"
    /\ pc' = [pc EXCEPT ![e] = "idle"]
    /\ entries' = [entries EXCEPT ![e] = {}]
    /\ newPairs' = [newPairs EXCEPT ![e] = {}]
    /\ newKevIds' = [newKevIds EXCEPT ![e] = {}]
    /\ matches' = [matches EXCEPT ![e] = {}]
    /\ lost' = lost \cup {key \in Actionable : Pending(e, key)}
    /\ UNCHANGED <<store, minCvss, fired, reported>>

Proceed(e) == UpsertKev(e) \/ MatchNewPair(e) \/ MatchNewKev(e) \/ Return(e)

Next ==
    \E e \in Engine :
        \/ \E batch \in PluginBatches, kev \in SUBSET Cve, min \in MinCvss :
               UpsertPlugins(e, batch, kev, min)
        \/ Proceed(e)
        \/ Abort(e)

Spec == Init /\ [][Next]_vars

(* A call that was started runs to its end; whether and when a call is     *)
(* made is up to the scheduler and the MCP clients.                        *)
FairSpec == Spec /\ \A e \in Engine : WF_vars(Proceed(e))

-----------------------------------------------------------------------------
Fired(key) == \E r \in Reason : fired[<<key, r>>] > 0

(* No actionable pair is ever lost between two calls: at any moment a pair *)
(* with both rows in the store was matched by a finished call, or a call   *)
(* in progress has it on its lists, or it was on the lists of a call that  *)
(* died.  Two calls may each insert one of the two rows; the later of them *)
(* must see the other's (correlation.py, "Persist first").  A call that    *)
(* dies before the second row is there loses nothing.                      *)
NothingMissed ==
    \A key \in Actionable :
        Fired(key) \/ key \in lost \/ \E e \in Engine : Pending(e, key)

(* However many calls overlap, and whatever they are polled with, a pair   *)
(* fires at most once as a new plugin and at most once as a new KEV entry: *)
(* upsert_* hands each new row to exactly one call.  The other half of     *)
(* "nothing re-fires on repeat polls".                                     *)
AtMostOncePerDirection == \A f \in Key \X Reason : fired[f] <= 1

(* One call matches a pair at most once, though both directions can find   *)
(* it when its plugin and its KEV entry arrive together: the purpose of    *)
(* already_matched.                                                        *)
OneMatchPerCall ==
    \A e \in Engine : \A m, n \in matches[e] : KeyOf(m) = KeyOf(n) => m = n

(* A plugin revised to a score that meets every threshold in use, for a    *)
(* CVE that was already in KEV, has been reported once all calls are done. *)
(* correlation.py:10 "a brand new/updated plugin covers a CVE that was     *)
(* already sitting in the KEV catalog from a previous cycle".              *)
UpdatedPluginReported ==
    (\A e \in Engine : pc[e] = "idle") =>
        \A key \in Actionable :
            (\A min \in MinCvss : MeetsThreshold(MatchOfRow(key), min))
                => key \in reported

-----------------------------------------------------------------------------
(* The calls together implement the ledger: learning is an upsert,         *)
(* announcing is a call's return.                                          *)
Ledger == INSTANCE ExploitLedger WITH
    covered   <- {key \in Key : plugin_cve_index[key] # NoRow},
    exploited <- kev_cves,
    announced <- {key \in Key : Fired(key)}

(* Every step of every call is a step of the ledger or changes nothing     *)
(* the ledger knows: a pair is announced only when both of its rows are    *)
(* committed.                                                              *)
ImplementsLedger == Ledger!Spec

(* Every actionable pair is announced, whichever call inserted which of    *)
(* its rows, or a call that held it died.                                  *)
EventuallyAnnounced ==
    \A key \in Key : (key \in Actionable) ~> (Fired(key) \/ key \in lost)
===============================================================================
