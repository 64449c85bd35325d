------------------------------ MODULE PipelineProofs ------------------------------
(***************************************************************************)
(* Theorems about Pipeline, for any plugins and CVEs, any number of tool   *)
(* calls beside the loop, any page size, feeds that change and revise what *)
(* they said, and cycles that fail at any point.  The first: there are     *)
(* three places to lose a pair between the store that remembers its rows   *)
(* and the list that will be proposed, a tool's call, a call that dies and *)
(* the threshold, and no other.                                            *)
(*                                                                         *)
(* CorrelationProofs has it that every actionable pair has fired, or is on *)
(* the lists of a call, or died with one.  What is left is to follow the   *)
(* pairs that fired.                                                       *)
(***************************************************************************)
EXTENDS Pipeline, CorrelationProofs

(* What FeedTypeOK says of the variables the argument is about.            *)
PollsInv ==
    /\ today \in 0..MaxDay
    /\ cursor \in Feed!Day \cup {NoDate}
    /\ poll \in [Engine -> Feed!Poll]

LoopInv ==
    /\ stage \in {"sleep", "cycle", "save_cursor", "propose"}
    /\ poll[Loop].pc # "idle" => stage = "cycle" /\ pc[Loop] = "idle"
    /\ pc[Loop] # "idle" => stage = "cycle" /\ minCvss[Loop] = min_cvss
    /\ stage \in {"sleep", "cycle"} => todo = {}

ListsInv ==
    /\ catalog \subseteq Cve /\ info \in [Plugin -> Record]
    /\ plugins \in [Engine -> PluginBatches]
    /\ kev_entries \in [Engine -> (SUBSET Cve) \cup {NoEntries}]
    /\ todo \subseteq Match

(* A pair that a call has matched and returned is proposed, or will be, or *)
(* was dismissed, or went to a tool's client, or died with a cycle.        *)
BookedInv ==
    \A key \in Key : Fired(key) =>
        key \in proposed \cup KeysOf(todo) \cup taken \cup lost \cup dismissed

CoreInv == TypeOK /\ ListsEmpty /\ NothingMissed

IInv == CoreInv /\ PollsInv /\ LoopInv /\ ListsInv /\ BookedInv

-----------------------------------------------------------------------------
LEMMA Accounted == IInv => EveryPairAccounted
  <1> SUFFICES ASSUME IInv, NEW key \in Actionable
               PROVE  \/ key \in proposed \cup KeysOf(todo) \cup taken \cup lost \cup dismissed
                      \/ \E c \in Engine : Pending(c, key)
    BY DEF EveryPairAccounted
  <1>1. key \in Key
    BY DEF Actionable
  <1>2. Fired(key) \/ key \in lost \/ \E e \in Engine : Pending(e, key)
    BY DEF IInv, CoreInv, NothingMissed
  <1>3. QED
    BY <1>1, <1>2 DEF IInv, BookedInv

LEMMA EmptyBatch == <<>> \in PluginBatches
  <1>1. <<>> \in [{} -> Listing]
    OBVIOUS
  <1>2. QED
    BY <1>1, PipelineAssumption, {} \in SUBSET Key

LEMMA InitHolds == PipeInit => IInv
  <1> SUFFICES ASSUME PipeInit
               PROVE  IInv
    OBVIOUS
  <1>1. TypeOK /\ ListsEmpty /\ NothingMissed
    BY DEF PipeInit, Init, TypeOK, ListsEmpty, NothingMissed, Actionable
  <1>2. PollsInv
    BY PipelineAssumption, FeedAssumption
    DEF PipeInit, Feed!FeedInit, PollsInv, Feed!Poll, Feed!NoPoll, Feed!Day
  <1>3. LoopInv
    BY PipelineAssumption DEF PipeInit, Init, Feed!FeedInit, Feed!NoPoll, LoopInv
  <1>6. ListsInv
    BY EmptyBatch DEF PipeInit, ListsInv, Record, Unpublished
  <1>4. BookedInv
    BY DEF PipeInit, Init, BookedInv, Fired
  <1>5. QED
    BY <1>1, <1>2, <1>3, <1>4, <1>6 DEF IInv, CoreInv

LEMMA CoreStays == CoreInv /\ UNCHANGED vars => CoreInv'
  <1> SUFFICES ASSUME CoreInv, UNCHANGED vars
               PROVE  CoreInv'
    OBVIOUS
  <1>1. TypeOK' /\ ListsEmpty' /\ NothingMissed'
    BY TypeStep, ListsEmptyStep, MissedNothingStep DEF CoreInv
  <1>2. QED
    BY <1>1 DEF CoreInv

-----------------------------------------------------------------------------
(* Steps of the world and of the feeds: no row and no match moves.         *)

(* What a poll that goes on or ends does to the polls.                     *)
LEMMA PollSteps ==
    ASSUME PollsInv, NEW c \in Engine,
           Feed!BeginPoll(c) \/ Feed!FetchPage(c) \/ Feed!EndPoll(c)
    PROVE  /\ PollsInv'
           /\ \A d \in Engine : d # c => poll'[d] = poll[d]
           /\ Feed!EndPoll(c) => poll'[c].pc = "idle"
  <1> USE FeedAssumption DEF PollsInv, Feed!Day
  <1>1. CASE Feed!BeginPoll(c)
    <2>1. Feed!Since \in Feed!Day \cup {NoDate}
      BY DEF Feed!Since
    <2>2. [pc |-> "page", since |-> Feed!Since, page |-> 1, plugins |-> {}] \in Feed!Poll
      BY <2>1 DEF Feed!Poll
    <2>3. QED
      BY <1>1, <2>2 DEF Feed!BeginPoll, Feed!feed, Feed!EndPoll, Feed!NoPoll
  <1>2. CASE Feed!FetchPage(c)
    <2> DEFINE items == Feed!Page(poll[c].since, poll[c].page)
               read == poll[c].plugins \cup items
               next == IF Feed!LastPage(items)
                       THEN [Feed!NoPoll EXCEPT !.pc = "polled", !.plugins = read]
                       ELSE [poll[c] EXCEPT !.page = poll[c].page + 1, !.plugins = read]
    <2>1. items \subseteq Plugin
      BY DEF Feed!Page, Feed!Matching, Feed!Published
    <2>2. next \in Feed!Poll
      <3>1. poll[c] \in Feed!Poll
        OBVIOUS
      <3>2. read \in SUBSET Plugin
        BY <2>1, <3>1 DEF Feed!Poll
      <3> HIDE DEF read
      <3>3. [Feed!NoPoll EXCEPT !.pc = "polled", !.plugins = read] \in Feed!Poll
        BY <3>2 DEF Feed!NoPoll, Feed!Poll
      <3>4. \A r \in SUBSET Plugin, n \in Nat :
                [poll[c] EXCEPT !.page = n, !.plugins = r] \in Feed!Poll
        BY <3>1 DEF Feed!Poll
      <3>5. poll[c].page + 1 \in Nat
        BY <3>1 DEF Feed!Poll
      <3>6. QED
        BY <3>2, <3>3, <3>4, <3>5
    <2>3. poll' = [poll EXCEPT ![c] = next]
      BY <1>2 DEF Feed!FetchPage
    <2>4. today' = today /\ cursor' = cursor
      BY <1>2 DEF Feed!FetchPage, Feed!feed
    <2> HIDE DEF next
    <2>5. QED
      BY <1>2, <2>2, <2>3, <2>4 DEF Feed!EndPoll, Feed!NoPoll
  <1>3. CASE Feed!EndPoll(c)
    <2>1. Feed!NoPoll \in Feed!Poll
      BY DEF Feed!NoPoll, Feed!Poll
    <2>2. QED
      BY <1>3, <2>1 DEF Feed!EndPoll, Feed!feed, Feed!NoPoll
  <1>4. QED
    BY <1>1, <1>2, <1>3

LEMMA WorldKeeps ==
    ASSUME IInv,
           (\E p \in Plugin : Publish(p)) \/ (\E cve \in Cve : Exploit(cve)) \/ Midnight
    PROVE  IInv'
  <1>1. /\ UNCHANGED <<vars, fetched, cycle, taken>> /\ poll' = poll /\ cursor' = cursor
        /\ today' = today \/ (today < MaxDay /\ today' = today + 1)
    BY DEF Publish, Exploit, Midnight, Feed!Publish, Feed!Midnight, feedVars, tools
  <1>2. CoreInv'
    BY <1>1, CoreStays DEF IInv
  <1>3. PollsInv'
    BY <1>1, FeedAssumption DEF IInv, PollsInv
  <1>4. LoopInv'
    BY <1>1 DEF IInv, LoopInv, vars, local, cycle
  <1>5. catalog' \subseteq Cve /\ info' \in [Plugin -> Record]
    <2>1. ASSUME NEW p \in Plugin, Publish(p)
          PROVE  catalog' = catalog /\ info' \in [Plugin -> Record]
      <3>1. PICK revision \in Revisions[p] : info' = [info EXCEPT ![p] = revision[2]]
        BY <2>1 DEF Publish
      <3>2. revision[2] \in Record
        BY <3>1, PipelineAssumption
      <3>3. QED
        BY <2>1, <3>1, <3>2 DEF Publish, IInv, ListsInv
    <2>2. CASE (\E cve \in Cve : Exploit(cve)) \/ Midnight
      BY <2>2 DEF Exploit, Midnight, world, IInv, ListsInv
    <2>3. QED
      BY <2>1, <2>2 DEF IInv, ListsInv
  <1>6. ListsInv'
    BY <1>1, <1>5 DEF IInv, ListsInv, fetched, cycle
  <1>7. BookedInv'
    BY <1>1 DEF IInv, BookedInv, Fired, vars, history, cycle
  <1>8. QED
    BY <1>2, <1>3, <1>4, <1>6, <1>7 DEF IInv

(* What a poll has read stays a poll result, whatever the feed says of the *)
(* plugins of the next page.                                               *)
LEMMA RecordsType ==
    ASSUME ListsInv, NEW batch \in PluginBatches, NEW items \in SUBSET Plugin
    PROVE  WithRecordsOf(batch, items) \in PluginBatches
  <1> DEFINE new == {key \in Key : key[2] \in items /\ key[1] \in info[key[2]].cves}
             keys == DOMAIN batch \cup new
  <1>1. DOMAIN batch \in SUBSET Key /\ batch \in [DOMAIN batch -> Listing]
    BY BatchAssumption
  <1>2. \A key \in new : info[key[2]].score \in Score \cup {NoScore}
    BY DEF ListsInv, Record
  <1>3. \A key \in DOMAIN batch :
            /\ batch[key].first \in Score \cup {NoScore}
            /\ batch[key].last \in Score \cup {NoScore}
    BY <1>1 DEF Listing
  <1>4. WithRecordsOf(batch, items) \in [keys -> Listing]
    BY <1>2, <1>3 DEF WithRecordsOf, Listing
  <1>5. keys \in SUBSET Key
    BY <1>1
  <1>6. QED
    BY <1>4, <1>5, PipelineAssumption

LEMMA PollingKeeps ==
    ASSUME IInv, NEW c \in Engine,
           \/ c = Loop /\ BeginCycle
           \/ BeginTool(c) \/ FetchPage(c) \/ ReturnList(c) \/ FailPoll(c)
    PROVE  IInv'
  <1>1. UNCHANGED <<vars, world, todo, proposed, dismissed, taken>>
    BY DEF BeginCycle, BeginTool, FetchPage, ReturnList, FailPoll, cycle, tools
  <1>2. CoreInv'
    BY <1>1, CoreStays DEF IInv
  <1>3. /\ PollsInv'
        /\ \A d \in Engine : d # c => poll'[d] = poll[d]
        /\ Feed!EndPoll(c) => poll'[c].pc = "idle"
    BY PollSteps
    DEF IInv, BeginCycle, BeginTool, FetchPage, ReturnList, FailPoll, Feed!DropPoll
  <1>4. LoopInv'
    <2>1. CASE c = Loop /\ BeginCycle
      BY <2>1, <1>1, <1>3 DEF IInv, LoopInv, BeginCycle, vars, local
    <2>2. CASE BeginTool(c) \/ ReturnList(c)
      BY <2>2, <1>1, <1>3, PipelineAssumption
      DEF IInv, LoopInv, BeginTool, ReturnList, cycle, vars, local
    <2>3. CASE FetchPage(c)
      BY <2>3, <1>1, <1>3, PipelineAssumption
      DEF IInv, LoopInv, FetchPage, Feed!FetchPage, cycle, vars, local
    <2>4. CASE FailPoll(c)
      BY <2>4, <1>1, <1>3, PipelineAssumption
      DEF IInv, LoopInv, FailPoll, Feed!DropPoll, vars, local
    <2>5. QED
      BY <2>1, <2>2, <2>3, <2>4
  <1>5. /\ plugins' \in [Engine -> PluginBatches]
        /\ kev_entries' \in [Engine -> (SUBSET Cve) \cup {NoEntries}]
    <2>1. CASE BeginCycle \/ BeginTool(c)
      BY <2>1 DEF BeginCycle, BeginTool, fetched, IInv, ListsInv
    <2>2. CASE ReturnList(c) \/ FailPoll(c)
      BY <2>2, EmptyBatch DEF ReturnList, FailPoll, Forget, IInv, ListsInv
    <2>3. CASE FetchPage(c)
      <3>1. Feed!Page(poll[c].since, poll[c].page) \in SUBSET Plugin
        BY DEF Feed!Page, Feed!Matching, Feed!Published
      <3>2. plugins[c] \in PluginBatches
        BY DEF IInv, ListsInv
      <3>3. WithRecordsOf(plugins[c], Feed!Page(poll[c].since, poll[c].page))
                \in PluginBatches
        BY <3>1, <3>2, RecordsType DEF IInv
      <3>4. QED
        BY <2>3, <3>3 DEF FetchPage, IInv, ListsInv
    <2>4. QED
      BY <2>1, <2>2, <2>3
  <1>6. ListsInv' /\ BookedInv'
    BY <1>1, <1>5 DEF IInv, ListsInv, BookedInv, Fired, vars, history, world
  <1>7. QED
    BY <1>2, <1>3, <1>4, <1>6 DEF IInv

LEMMA PollKevKeeps ==
    ASSUME IInv, NEW c \in Engine, PollKev(c)
    PROVE  IInv'
  <1>1. /\ UNCHANGED <<vars, feedVars, world, plugins, cycle, taken>>
        /\ kev_entries' = [kev_entries EXCEPT ![c] = catalog]
    BY DEF PollKev, tools
  <1>2. CoreInv'
    BY <1>1, CoreStays DEF IInv
  <1>3. PollsInv' /\ LoopInv'
    BY <1>1 DEF IInv, PollsInv, LoopInv, vars, local, feedVars, cycle
  <1>4. ListsInv' /\ BookedInv'
    BY <1>1 DEF IInv, ListsInv, BookedInv, Fired, vars, history, world, cycle
  <1>5. QED
    BY <1>2, <1>3, <1>4 DEF IInv

LEMMA ProposingKeeps ==
    ASSUME IInv, SaveCursor \/ ProposeScan \/ EndCycle
    PROVE  IInv'
  <1>1. /\ UNCHANGED <<vars, world, fetched, dismissed, taken>> /\ poll' = poll
        /\ today' = today /\ cursor' \in {cursor, today}
        /\ stage \in {"save_cursor", "propose"} /\ stage' \in {"sleep", "propose"}
        /\ stage' = "sleep" => todo' = {}
        /\ todo' \subseteq todo
        /\ proposed \cup KeysOf(todo) \subseteq proposed' \cup KeysOf(todo')
    BY DEF SaveCursor, ProposeScan, EndCycle, Feed!SaveCursor, Feed!feed, feedVars, tools,
           KeysOf
  <1>2. CoreInv'
    BY <1>1, CoreStays DEF IInv
  <1>3. PollsInv'
    BY <1>1, FeedAssumption DEF IInv, PollsInv, Feed!Day
  <1>4. LoopInv' /\ ListsInv'
    BY <1>1 DEF IInv, LoopInv, ListsInv, vars, local, world, fetched
  <1>5. BookedInv'
    BY <1>1 DEF IInv, BookedInv, Fired, vars, history
  <1>6. QED
    BY <1>2, <1>3, <1>4, <1>5 DEF IInv

-----------------------------------------------------------------------------
(* Steps of the correlation.                                               *)

LEMMA EngineSteps ==
    ASSUME CoreInv, Next
    PROVE  TypeOK' /\ ListsEmpty' /\ NothingMissed'
  BY TypeStep, ListsEmptyStep, MissedNothingStep DEF CoreInv

(* What a correlation begins with was polled.                              *)
LEMMA Polled ==
    ASSUME ListsInv, NEW c \in Engine, NEW min, Correlate(c, min)
    PROVE  plugins[c] \in PluginBatches /\ kev_entries[c] \in SUBSET Cve
  BY DEF ListsInv, Correlate

LEMMA CorrelateKeeps ==
    ASSUME IInv, NEW c \in Engine, NEW min \in MinCvss, Correlate(c, min)
    PROVE  IInv'
  <1>1. /\ UpsertPlugins(c, plugins[c], kev_entries[c], min) /\ Feed!EndPoll(c)
        /\ poll[c].pc = "polled" /\ (c = Loop => min = min_cvss)
        /\ UNCHANGED <<world, cycle, taken>> /\ Forget(c)
    BY DEF Correlate, Feed!Deliver, tools
  <1>2. plugins[c] \in PluginBatches /\ kev_entries[c] \in SUBSET Cve
    BY Polled DEF IInv
  <1>3. CoreInv'
    BY <1>1, <1>2, EngineSteps DEF IInv, Next, CoreInv
  <1>4. /\ fired' = fired /\ lost' = lost
        /\ pc' = [pc EXCEPT ![c] = "upsert_kev"] /\ minCvss' = [minCvss EXCEPT ![c] = min]
    BY <1>1 DEF UpsertPlugins, history
  <1>5. /\ PollsInv' /\ poll'[c].pc = "idle"
        /\ \A d \in Engine : d # c => poll'[d] = poll[d]
    BY <1>1, PollSteps DEF IInv
  <1>6. LoopInv'
    BY <1>1, <1>4, <1>5, PipelineAssumption DEF IInv, CoreInv, TypeOK, LoopInv, cycle
  <1>7. ListsInv'
    BY <1>1, EmptyBatch DEF IInv, ListsInv, Forget, world, cycle
  <1>8. BookedInv'
    BY <1>1, <1>4 DEF IInv, BookedInv, Fired, cycle
  <1>9. QED
    BY <1>3, <1>5, <1>6, <1>7, <1>8 DEF IInv

LEMMA LookupKeeps ==
    ASSUME IInv, NEW c \in Engine, Lookup(c)
    PROVE  IInv'
  <1>1. /\ UpsertKev(c) \/ MatchNewPair(c) \/ MatchNewKev(c)
        /\ UNCHANGED <<today, cursor, poll, world, fetched, cycle, taken>>
    BY DEF Lookup, feedVars, tools
  <1>2. CoreInv'
    BY <1>1, EngineSteps DEF IInv, Next, Proceed, CoreInv
  <1>3. fired' = fired /\ lost' = lost /\ minCvss' = minCvss
    BY <1>1 DEF UpsertKev, MatchNewPair, MatchNewKev, store, history
  <1>4. /\ pc[c] # "idle" /\ pc'[c] # "idle"
        /\ \A d \in Engine : d # c => pc'[d] = pc[d]
    BY <1>1 DEF UpsertKev, MatchNewPair, MatchNewKev, IInv, CoreInv, TypeOK
  <1>5. PollsInv' /\ ListsInv' /\ BookedInv'
    BY <1>1, <1>3 DEF IInv, PollsInv, ListsInv, BookedInv, Fired, world, fetched, cycle
  <1>6. LoopInv'
    BY <1>1, <1>3, <1>4, PipelineAssumption DEF IInv, LoopInv, cycle
  <1>7. QED
    BY <1>2, <1>5, <1>6 DEF IInv

(* What a return fires is what it had matched.                             *)
LEMMA ReturnFires ==
    ASSUME CoreInv, NEW c \in Engine, Return(c)
    PROVE  /\ CoreInv' /\ lost' = lost /\ minCvss' = minCvss
           /\ pc[c] # "idle" /\ pc' = [pc EXCEPT ![c] = "idle"]
           /\ \A key \in Key : Fired(key)' => Fired(key) \/ key \in KeysOf(matches[c])
  <1>1. /\ lost' = lost /\ minCvss' = minCvss
        /\ pc[c] # "idle" /\ pc' = [pc EXCEPT ![c] = "idle"]
    BY DEF Return
  <1>2. CoreInv'
    BY EngineSteps DEF Next, Proceed, CoreInv
  <1>4. ASSUME NEW key \in Key, Fired(key)', ~ Fired(key)
        PROVE  key \in KeysOf(matches[c])
    <2>1. PICK r \in Reason : fired'[<<key, r>>] > 0
      BY <1>4 DEF Fired
    <2>2. ~ fired[<<key, r>>] > 0
      BY <1>4, <2>1 DEF Fired
    <2>3. <<key, r>> \in DOMAIN fired
      BY <2>1 DEF CoreInv, TypeOK
    <2>4. \E m \in matches[c] : <<key, r>> = <<KeyOf(m), m.reason>>
      BY <2>1, <2>2, <2>3 DEF Return
    <2>5. QED
      BY <2>4 DEF KeysOf
  <1>5. QED
    BY <1>1, <1>2, <1>4

LEMMA ReturnToolKeeps ==
    ASSUME IInv, NEW c \in Engine, ReturnTool(c)
    PROVE  IInv'
  <1>1. /\ c # Loop /\ Return(c) /\ taken' = taken \cup KeysOf(matches[c])
        /\ UNCHANGED <<today, cursor, poll, world, fetched, cycle>>
    BY DEF ReturnTool, feedVars
  <1>2. /\ CoreInv' /\ lost' = lost /\ minCvss' = minCvss
        /\ pc[c] # "idle" /\ pc' = [pc EXCEPT ![c] = "idle"]
        /\ \A key \in Key : Fired(key)' => Fired(key) \/ key \in KeysOf(matches[c])
    BY <1>1, ReturnFires DEF IInv
  <1>3. PollsInv' /\ ListsInv'
    BY <1>1 DEF IInv, PollsInv, ListsInv, world, fetched, cycle
  <1>4. LoopInv'
    BY <1>1, <1>2, PipelineAssumption DEF IInv, CoreInv, TypeOK, LoopInv, cycle
  <1>5. BookedInv'
    BY <1>1, <1>2 DEF IInv, BookedInv, cycle
  <1>6. QED
    BY <1>2, <1>3, <1>4, <1>5 DEF IInv

LEMMA ReturnCycleKeeps ==
    ASSUME IInv, ReturnCycle
    PROVE  IInv'
  <1>1. /\ Return(Loop) /\ stage' = "save_cursor"
        /\ todo' = {m \in matches[Loop] : MeetsThreshold(m, minCvss[Loop])}
        /\ dismissed' = dismissed \cup KeysOf(matches[Loop] \ todo')
        /\ UNCHANGED <<today, cursor, poll, world, fetched, proposed, taken>>
    BY DEF ReturnCycle, feedVars, tools
  <1>2. /\ CoreInv' /\ lost' = lost /\ minCvss' = minCvss
        /\ pc[Loop] # "idle" /\ pc' = [pc EXCEPT ![Loop] = "idle"]
        /\ \A key \in Key : Fired(key)' => Fired(key) \/ key \in KeysOf(matches[Loop])
    BY <1>1, ReturnFires, PipelineAssumption DEF IInv
  <1>3. todo = {} /\ poll[Loop].pc = "idle"
    BY <1>2 DEF IInv, LoopInv
  <1>4. PollsInv' /\ ListsInv'
    BY <1>1, PipelineAssumption
    DEF IInv, CoreInv, TypeOK, PollsInv, ListsInv, world, fetched
  <1>5. LoopInv'
    BY <1>1, <1>2, <1>3, PipelineAssumption DEF IInv, CoreInv, TypeOK, LoopInv
  <1>6. KeysOf(matches[Loop]) = KeysOf(todo') \cup KeysOf(matches[Loop] \ todo')
    BY <1>1 DEF KeysOf
  <1>7. KeysOf(todo) = {}
    BY <1>3 DEF KeysOf
  <1>8. BookedInv'
    <2>1. KeysOf(todo)' = KeysOf(todo')
      BY DEF KeysOf
    <2>2. QED
      BY <1>1, <1>2, <1>6, <1>7, <2>1 DEF IInv, BookedInv
  <1>9. QED
    BY <1>2, <1>4, <1>5, <1>8 DEF IInv

LEMMA FailCorrelationKeeps ==
    ASSUME IInv, NEW c \in Engine, FailCorrelation(c)
    PROVE  IInv'
  <1>1. /\ Abort(c) /\ stage' = (IF c = Loop THEN "sleep" ELSE stage)
        /\ UNCHANGED <<today, cursor, poll, world, fetched, todo, proposed, dismissed, taken>>
    BY DEF FailCorrelation, feedVars, tools
  <1>2. CoreInv'
    BY <1>1, EngineSteps DEF IInv, Next, CoreInv
  <1>3. /\ fired' = fired /\ lost \subseteq lost' /\ minCvss' = minCvss
        /\ pc[c] # "idle" /\ pc' = [pc EXCEPT ![c] = "idle"]
    BY <1>1 DEF Abort
  <1>4. PollsInv' /\ ListsInv'
    BY <1>1 DEF IInv, PollsInv, ListsInv, world, fetched
  <1>5. LoopInv'
    BY <1>1, <1>3, PipelineAssumption DEF IInv, CoreInv, TypeOK, LoopInv
  <1>6. BookedInv'
    BY <1>1, <1>3 DEF IInv, BookedInv, Fired
  <1>7. QED
    BY <1>2, <1>4, <1>5, <1>6 DEF IInv

(* The matches a failed cycle drops are booked as lost.                    *)
LEMMA FailCycleKeeps ==
    ASSUME IInv, FailCycle
    PROVE  IInv'
  <1>1. /\ stage \in {"save_cursor", "propose"} /\ stage' = "sleep" /\ todo' = {}
        /\ lost' = lost \cup KeysOf(todo)
        /\ UNCHANGED <<store, local, fired, reported>>
        /\ UNCHANGED <<today, cursor, poll, world, fetched, proposed, dismissed, taken>>
    BY DEF FailCycle, feedVars, tools
  <1>2. KeysOf(todo) \subseteq Key
    BY DEF IInv, ListsInv, KeysOf, KeyOf, Key, Match
  <1>3. TypeOK' /\ ListsEmpty'
    BY <1>1, <1>2 DEF IInv, CoreInv, TypeOK, ListsEmpty, store, local
  <1>4. NothingMissed'
    BY <1>1 DEF IInv, CoreInv, NothingMissed, Actionable, Fired, Pending, KeysOf, store, local
  <1>5. PollsInv' /\ ListsInv' /\ LoopInv'
    BY <1>1 DEF IInv, PollsInv, ListsInv, LoopInv, local, world, fetched
  <1>6. BookedInv'
    BY <1>1 DEF IInv, BookedInv, Fired
  <1>7. QED
    BY <1>3, <1>4, <1>5, <1>6 DEF IInv, CoreInv

LEMMA PipeStep == IInv /\ [PipeNext]_pipeVars => IInv'
  <1> SUFFICES ASSUME IInv, [PipeNext]_pipeVars
               PROVE  IInv'
    OBVIOUS
  <1>1. CASE (\E p \in Plugin : Publish(p)) \/ (\E cve \in Cve : Exploit(cve)) \/ Midnight
    BY <1>1, WorldKeeps
  <1>2. ASSUME NEW c \in Engine, StepOf(c)
        PROVE  IInv'
    BY <1>2, PollingKeeps, PollKevKeeps, CorrelateKeeps, LookupKeeps DEF StepOf
  <1>3. CASE LoopStep
    BY <1>2, <1>3, PollingKeeps, ProposingKeeps, ReturnCycleKeeps, PipelineAssumption
    DEF LoopStep
  <1>4. CASE FailCycle
    BY <1>4, FailCycleKeeps
  <1>5. ASSUME NEW c \in Engine, FailOf(c)
        PROVE  IInv'
    BY <1>5, PollingKeeps, FailCorrelationKeeps DEF FailOf
  <1>6. ASSUME NEW c \in Engine, ToolStep(c)
        PROVE  IInv'
    BY <1>2, <1>6, PollingKeeps, ReturnToolKeeps DEF ToolStep
  <1>7. CASE UNCHANGED pipeVars
    <2>1. CoreInv'
      BY <1>7, CoreStays DEF IInv, pipeVars
    <2>2. PollsInv' /\ LoopInv' /\ ListsInv' /\ BookedInv'
      BY <1>7
      DEF IInv, PollsInv, LoopInv, ListsInv, BookedInv, Fired, pipeVars, feedVars, world,
          fetched, cycle, tools, vars, local, history
    <2>3. QED
      BY <2>1, <2>2 DEF IInv
  <1>8. QED
    BY <1>1, <1>3, <1>4, <1>5, <1>6, <1>7 DEF PipeNext

(* Whatever the feeds do and revise, and whichever polls, correlations and *)
(* cycles fail, a pair whose rows are both in the store is proposed, or    *)
(* still on the way to it, or in the hands of a tool's client, or died     *)
(* with a call, or was below the threshold when the loop matched it.       *)
THEOREM EveryPairIsAccounted == PipeSpec => []EveryPairAccounted
  <1>1. QED
    BY InitHolds, PipeStep, Accounted, PTL DEF PipeSpec

-----------------------------------------------------------------------------
(* What the engine promises, it keeps as a part of the pipeline.           *)

(* The calls and the tables move by steps of the engine only.              *)
LEMMA StepsOfTheEngine ==
    ASSUME IInv, [PipeNext]_pipeVars
    PROVE  [Next]_vars \/ UNCHANGED <<store, local, fired, reported>>
  <1>1. ASSUME NEW c \in Engine, StepOf(c)
        PROVE  [Next]_vars
    <2>1. CASE FetchPage(c) \/ PollKev(c)
      BY <2>1 DEF FetchPage, PollKev
    <2>2. ASSUME NEW min \in MinCvss, Correlate(c, min)
          PROVE  [Next]_vars
      BY <2>2, Polled DEF Correlate, Next, IInv
    <2>3. CASE Lookup(c)
      BY <2>3 DEF Lookup, Next, Proceed
    <2>4. QED
      BY <1>1, <2>1, <2>2, <2>3 DEF StepOf
  <1>2. CASE (\E p \in Plugin : Publish(p)) \/ (\E cve \in Cve : Exploit(cve)) \/ Midnight
    BY <1>2 DEF Publish, Exploit, Midnight
  <1>3. CASE LoopStep
    BY <1>1, <1>3, PipelineAssumption
    DEF LoopStep, BeginCycle, ReturnCycle, SaveCursor, ProposeScan, EndCycle, Next, Proceed
  <1>4. CASE FailCycle
    BY <1>4 DEF FailCycle
  <1>5. ASSUME NEW c \in Engine, FailOf(c)
        PROVE  [Next]_vars
    BY <1>5 DEF FailOf, FailPoll, FailCorrelation, Next
  <1>6. ASSUME NEW c \in Engine, ToolStep(c)
        PROVE  [Next]_vars
    BY <1>1, <1>6 DEF ToolStep, BeginTool, ReturnList, ReturnTool, Next, Proceed
  <1>7. CASE UNCHANGED pipeVars
    BY <1>7 DEF pipeVars
  <1>8. QED
    BY <1>2, <1>3, <1>4, <1>5, <1>6, <1>7 DEF PipeNext

PromiseInv == OnceInv /\ OneInv /\ HeldInv /\ AnnouncedInv

LEMMA PromisesKeep ==
    IInv /\ PromiseInv /\ [PipeNext]_pipeVars
        => PromiseInv' /\ [Ledger!Next]_Ledger!vars
  <1> SUFFICES ASSUME IInv, PromiseInv, [PipeNext]_pipeVars
               PROVE  PromiseInv' /\ [Ledger!Next]_Ledger!vars
    OBVIOUS
  <1>1. CASE [Next]_vars
    BY <1>1, OnceStep, OneInvStep, StepRefines DEF IInv, CoreInv, PromiseInv
  <1>2. CASE UNCHANGED <<store, local, fired, reported>>
    <2>1. /\ UNCHANGED <<kev_cves, plugin_cve_index, newPairs, newKevIds, matches, fired>>
          /\ Actionable' = Actionable
      BY <1>2 DEF store, local, Actionable
    <2>2. OnceInv'
      BY <2>1 DEF PromiseInv, OnceInv, Holds, Seen, KeysOf, AtMostOncePerDirection
    <2>3. OneInv'
      BY <2>1 DEF PromiseInv, OneInv, KeysApart, OneMatchPerCall
    <2>4. HeldInv' /\ AnnouncedInv'
      BY <2>1 DEF PromiseInv, HeldInv, AnnouncedInv, Fired
    <2>5. UNCHANGED Ledger!vars
      BY <2>1 DEF Ledger!vars, Fired
    <2>6. QED
      BY <2>2, <2>3, <2>4, <2>5 DEF PromiseInv
  <1>3. QED
    BY <1>1, <1>2, StepsOfTheEngine

LEMMA PromisesBegin == PipeInit => PromiseInv /\ Ledger!Init
  <1> SUFFICES ASSUME Init
               PROVE  PromiseInv /\ Ledger!Init
    BY DEF PipeInit
  <1>1. OnceInv
    BY DEF Init, OnceInv, Holds, KeysOf, AtMostOncePerDirection
  <1>2. OneInv
    BY DEF Init, OneInv, KeysApart, OneMatchPerCall
  <1>3. HeldInv
    BY DEF Init, HeldInv
  <1>4. \A key \in Key : ~ Fired(key) /\ plugin_cve_index[key] = NoRow
    <2>1. \A f \in Key \X Reason : fired[f] = 0
      BY DEF Init
    <2>2. ASSUME NEW key \in Key, NEW r \in Reason
          PROVE  ~ fired[<<key, r>>] > 0
      <3>1. fired[<<key, r>>] = 0
        BY <2>1
      <3>2. QED
        BY <3>1
    <2>3. QED
      BY <2>2 DEF Init, Fired
  <1>5. AnnouncedInv /\ Ledger!Init
    BY <1>4 DEF Init, AnnouncedInv, Ledger!Init
  <1>6. QED
    BY <1>1, <1>2, <1>3, <1>5 DEF PromiseInv

LEMMA PromisesHold == PipeSpec => [](IInv /\ PromiseInv)
  BY InitHolds, PipeStep, PromisesBegin, PromisesKeep, PTL DEF PipeSpec

(* Over all cycles of the loop and all calls of the tools, a pair fires at *)
(* most once as a new plugin and once as a new KEV entry.                  *)
THEOREM PipelineFiresAtMostOnce == PipeSpec => []AtMostOncePerDirection
  <1>1. PromiseInv => AtMostOncePerDirection
    BY DEF PromiseInv, OnceInv
  <1>2. QED
    BY <1>1, PromisesHold, PTL

(* The whole pipeline implements the ledger: polls, cursors, cycles and    *)
(* their failures are stuttering steps of it.                              *)
THEOREM PipelineImplementsLedger == PipeSpec => ImplementsLedger
  BY PromisesBegin, PromisesKeep, PromisesHold, PTL
  DEF PipeSpec, ImplementsLedger, Ledger!Spec

-----------------------------------------------------------------------------
(* The loop's proposals, from the matches of the correlation.              *)

(* What is or will be proposed has both of its rows.                       *)
ProposableInv == KeysOf(todo) \cup proposed \subseteq Actionable

(* No row goes away.                                                       *)
LEMMA FactsStay ==
    ASSUME IInv, PromiseInv, [PipeNext]_pipeVars
    PROVE  /\ \A key \in Key : plugin_cve_index[key] # NoRow
                  => plugin_cve_index'[key] # NoRow
           /\ kev_cves \subseteq kev_cves' /\ kev_cves' \subseteq Cve
           /\ Actionable \subseteq Actionable'
  <1>1. [Ledger!Next]_Ledger!vars
    BY PromisesKeep
  <1>2. /\ {key \in Key : plugin_cve_index[key] # NoRow}
              \subseteq {key \in Key : plugin_cve_index'[key] # NoRow}
        /\ kev_cves \subseteq kev_cves'
    BY <1>1 DEF Ledger!Next, Ledger!Learn, Ledger!Announce, Ledger!vars
  <1>3. kev_cves' \subseteq Cve
    BY PipeStep DEF IInv, CoreInv, TypeOK
  <1>4. QED
    BY <1>2, <1>3 DEF Actionable

(* The cycle's list is filled with what the correlation returns, and a     *)
(* proposal takes one from it.                                             *)
LEMMA ProposalSteps ==
    ASSUME IInv, PromiseInv, [PipeNext]_pipeVars
    PROVE  \/ /\ proposed' = proposed
              /\ KeysOf(todo)' \subseteq KeysOf(todo) \cup Actionable
           \/ /\ UNCHANGED <<kev_cves, plugin_cve_index>>
              /\ proposed \subseteq proposed'
              /\ KeysOf(todo)' \cup proposed' \subseteq KeysOf(todo) \cup proposed
  <1>1. CASE ProposeScan
    BY <1>1 DEF ProposeScan, vars, store, KeysOf
  <1>2. CASE ReturnCycle
    <2>1. \A m \in matches[Loop] : KeyOf(m) \in Actionable
      BY PipelineAssumption DEF PromiseInv, HeldInv
    <2>2. QED
      BY <1>2, <2>1 DEF ReturnCycle, KeysOf
  <1>3. CASE /\ PipeNext
             /\ ~ ProposeScan /\ ~ ReturnCycle
    <2>1. proposed' = proposed /\ todo' \subseteq todo
      BY <1>3
      DEF PipeNext, Publish, Exploit, Midnight, LoopStep, BeginCycle, StepOf, FetchPage,
          PollKev, Correlate, Lookup, SaveCursor, EndCycle, FailCycle, FailOf, FailPoll,
          FailCorrelation, ToolStep, BeginTool, ReturnList, ReturnTool, cycle
    <2>2. QED
      BY <2>1 DEF KeysOf
  <1>4. CASE UNCHANGED pipeVars
    BY <1>4 DEF pipeVars, cycle, KeysOf
  <1>5. QED
    BY <1>1, <1>2, <1>3, <1>4

LEMMA ProposalsRefine ==
    IInv /\ PromiseInv /\ ProposableInv /\ [PipeNext]_pipeVars
        => ProposableInv' /\ [Proposals!Next]_Proposals!vars
  <1> SUFFICES ASSUME IInv, PromiseInv, ProposableInv, [PipeNext]_pipeVars
               PROVE  ProposableInv' /\ [Proposals!Next]_Proposals!vars
    OBVIOUS
  <1>1. CASE /\ proposed' = proposed
             /\ KeysOf(todo)' \subseteq KeysOf(todo) \cup Actionable
    <2>1. ProposableInv'
      BY <1>1, FactsStay DEF ProposableInv
    <2>2. Proposals!Learn
      BY <1>1, FactsStay DEF Proposals!Learn, Proposals!Pair, Key
    <2>3. QED
      BY <2>1, <2>2 DEF Proposals!Next
  <1>2. CASE /\ UNCHANGED <<kev_cves, plugin_cve_index>>
             /\ proposed \subseteq proposed'
             /\ KeysOf(todo)' \cup proposed' \subseteq KeysOf(todo) \cup proposed
    <2>1. Actionable' = Actionable /\ Proposals!Actionable = Actionable
      BY <1>2 DEF Actionable, Proposals!Actionable
    <2>2. QED
      BY <1>2, <2>1 DEF ProposableInv, Proposals!Announce, Proposals!Next
  <1>3. QED
    BY <1>1, <1>2, ProposalSteps

(* Whatever runs beside the loop and wherever a cycle fails, a scan is     *)
(* proposed only of a pair whose plugin and CVE are both committed, and no *)
(* fact and no proposal is taken back.                                     *)
THEOREM ProposalsFollowTheFacts == PipeSpec => ProposalsImplementLedger
  <1>1. PipeInit => ProposableInv /\ Proposals!Init
    BY DEF PipeInit, Init, ProposableInv, KeysOf, Proposals!Init
  <1>2. QED
    BY <1>1, ProposalsRefine, PromisesHold, PTL
    DEF PipeSpec, ProposalsImplementLedger, Proposals!Spec
===============================================================================
