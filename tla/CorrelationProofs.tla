--------------------------- MODULE CorrelationProofs ---------------------------
(***************************************************************************)
(* Theorems about CorrelationEngine, for any number of overlapping calls,  *)
(* any CVEs and plugins, and whatever the feeds return.                    *)
(***************************************************************************)
EXTENDS CorrelationEngine, TLAPS

USE DEF Key, Reason, KeyOf

-----------------------------------------------------------------------------
(* What the store's operators return.                                      *)

(* upsert_plugins keeps the index well typed, and a row never goes away.   *)
LEMMA IndexAfterUpsertType ==
    ASSUME NEW index \in [Key -> Score \cup {NoScore, NoRow}],
           NEW batch \in PluginBatches
    PROVE  /\ IndexAfterUpsert(index, batch) \in [Key -> Score \cup {NoScore, NoRow}]
           /\ \A key \in Key : index[key] # NoRow
                  => IndexAfterUpsert(index, batch)[key] # NoRow
  <1>1. \A key \in Key : key \in DOMAIN batch =>
            /\ batch[key] \in Listing
            /\ batch[key].first # NoRow /\ batch[key].last # NoRow
    BY BatchAssumption, ScoreAssumption DEF Listing
  <1>2. QED
    BY <1>1 DEF IndexAfterUpsert, Listing

(* upsert_plugins returns exactly the pairs whose row it inserted, each    *)
(* once.                                                                   *)
LEMMA NewPairsAreTheNewRows ==
    ASSUME NEW index \in [Key -> Score \cup {NoScore, NoRow}],
           NEW batch \in PluginBatches
    PROVE  /\ NewPairs(index, batch) \subseteq NewPair
           /\ \A p \in NewPairs(index, batch) :
                  /\ index[KeyOf(p)] = NoRow
                  /\ IndexAfterUpsert(index, batch)[KeyOf(p)] # NoRow
           /\ \A key \in Key :
                  index[key] = NoRow /\ IndexAfterUpsert(index, batch)[key] # NoRow
                      => key \in KeysOf(NewPairs(index, batch))
           /\ \A p, q \in NewPairs(index, batch) : KeyOf(p) = KeyOf(q) => p = q
  <1> DEFINE P(key) == [cve |-> key[1], plugin |-> key[2],
                        score |-> batch[key].first]
  <1>1. \A key \in Key : key \in DOMAIN batch =>
            /\ batch[key] \in Listing
            /\ batch[key].first # NoRow /\ batch[key].last # NoRow
    BY BatchAssumption, ScoreAssumption DEF Listing
  <1>2. DOMAIN index = Key
    OBVIOUS
  <1>3. \A p \in NewPairs(index, batch) :
            \E key \in Key : key \in DOMAIN batch /\ index[key] = NoRow /\ p = P(key)
    BY <1>2 DEF NewPairs
  <1>4. \A key \in Key : KeyOf(P(key)) = key
    OBVIOUS
  <1>5. NewPairs(index, batch) \subseteq NewPair
    BY <1>1, <1>3 DEF NewPair, Listing
  <1>6. \A p \in NewPairs(index, batch) :
            /\ index[KeyOf(p)] = NoRow
            /\ IndexAfterUpsert(index, batch)[KeyOf(p)] # NoRow
    <2> TAKE p \in NewPairs(index, batch)
    <2>1. PICK key \in Key :
              key \in DOMAIN batch /\ index[key] = NoRow /\ p = P(key)
      BY <1>3
    <2>2. KeyOf(p) = key
      BY <2>1, <1>4
    <2>3. IndexAfterUpsert(index, batch)[key] = batch[key].last
      BY <2>1, <1>2 DEF IndexAfterUpsert
    <2>4. QED
      BY <1>1, <2>1, <2>2, <2>3
  <1>7. ASSUME NEW key \in Key, index[key] = NoRow,
               IndexAfterUpsert(index, batch)[key] # NoRow
        PROVE  key \in KeysOf(NewPairs(index, batch))
    <2>1. key \in DOMAIN batch
      BY <1>2, <1>7 DEF IndexAfterUpsert
    <2>2. P(key) \in NewPairs(index, batch)
      BY <1>2, <1>7, <2>1 DEF NewPairs
    <2>3. QED
      BY <1>4, <2>2 DEF KeysOf
  <1>8. \A p, q \in NewPairs(index, batch) : KeyOf(p) = KeyOf(q) => p = q
    <2> TAKE p, q \in NewPairs(index, batch)
    <2>1. PICK k \in Key : p = P(k)
      BY <1>3
    <2>2. PICK l \in Key : q = P(l)
      BY <1>3
    <2>3. KeyOf(p) = k /\ KeyOf(q) = l
      BY <1>4, <2>1, <2>2
    <2>4. QED
      BY <2>1, <2>2, <2>3
  <1>9. QED
    BY <1>5, <1>6, <1>7, <1>8

(* A match built for a pair or a row is well typed and keeps its key.      *)
LEMMA MatchFacts ==
    ASSUME TypeOK
    PROVE  /\ \A pair \in NewPair :
                  /\ MatchOfPair(pair) \in Match
                  /\ KeyOf(MatchOfPair(pair)) = KeyOf(pair)
           /\ \A key \in Key :
                  /\ KeyOf(MatchOfRow(key)) = key
                  /\ plugin_cve_index[key] # NoRow => MatchOfRow(key) \in Match
  BY DEF MatchOfPair, MatchOfRow, NewPair, Match, TypeOK

-----------------------------------------------------------------------------
(* No step of a call breaks a type.                                        *)
LEMMA TypeStep == TypeOK /\ [Next]_vars => TypeOK'
  <1> SUFFICES ASSUME TypeOK, [Next]_vars
               PROVE  TypeOK'
    OBVIOUS
  <1>1. ASSUME NEW e \in Engine, NEW batch \in PluginBatches,
               NEW kev \in SUBSET Cve, NEW min \in MinCvss,
               UpsertPlugins(e, batch, kev, min)
        PROVE  TypeOK'
    <2>1. NewPairs(plugin_cve_index, batch) \subseteq NewPair
      BY NewPairsAreTheNewRows DEF TypeOK
    <2>2. plugin_cve_index' \in [Key -> Score \cup {NoScore, NoRow}]
      BY <1>1, IndexAfterUpsertType DEF UpsertPlugins, TypeOK
    <2>3. QED
      BY <1>1, <2>1, <2>2 DEF UpsertPlugins, TypeOK, history
  <1>2. ASSUME NEW e \in Engine, UpsertKev(e)
        PROVE  TypeOK'
    BY <1>2 DEF UpsertKev, TypeOK, history, KevAfterUpsert, NewKevIds
  <1>3. ASSUME NEW e \in Engine, MatchNewPair(e)
        PROVE  TypeOK'
    <2>1. PICK pair \in newPairs[e] :
              /\ newPairs' = [newPairs EXCEPT ![e] = @ \ {pair}]
              /\ matches' = [matches EXCEPT ![e] =
                     IF IsKev(kev_cves, pair.cve)
                     THEN @ \cup {MatchOfPair(pair)} ELSE @]
      BY <1>3 DEF MatchNewPair
    <2>2. MatchOfPair(pair) \in Match
      BY MatchFacts DEF TypeOK
    <2>3. QED
      BY <1>3, <2>1, <2>2 DEF MatchNewPair, TypeOK, store, history
  <1>4. ASSUME NEW e \in Engine, MatchNewKev(e)
        PROVE  TypeOK'
    <2>1. \A cve : {MatchOfRow(key) :
                        key \in RowsForCve(plugin_cve_index, cve)
                                \ KeysOf(matches[e])} \subseteq Match
      BY MatchFacts DEF RowsForCve, TypeOK
    <2>2. matches' \in [Engine -> SUBSET Match]
      BY <1>4, <2>1 DEF MatchNewKev, UnmatchedRows, TypeOK
    <2>3. QED
      BY <1>4, <2>2 DEF MatchNewKev, TypeOK, store, history
  <1>5. ASSUME NEW e \in Engine, Return(e)
        PROVE  TypeOK'
    <2>1. fired' \in [Key \X Reason -> Nat]
      BY <1>5 DEF Return, TypeOK
    <2>2. reported' \subseteq Key
      BY <1>5 DEF Return, TypeOK, KeysOf, Match
    <2>3. QED
      BY <1>5, <2>1, <2>2 DEF Return, TypeOK, store
  <1>6. ASSUME NEW e \in Engine, Abort(e)
        PROVE  TypeOK'
    BY <1>6 DEF Abort, TypeOK, store, Actionable
  <1>7. CASE UNCHANGED vars
    BY <1>7 DEF TypeOK, vars, store, local, history
  <1>8. QED
    BY <1>1, <1>2, <1>3, <1>4, <1>5, <1>6, <1>7 DEF Next, Proceed

(* Type correctness: each call stays within its lists and the tables keep  *)
(* their shape.                                                            *)
THEOREM TypeCorrect == Spec => []TypeOK
  <1>1. Init => TypeOK
    BY DEF Init, TypeOK
  <1>2. QED
    BY <1>1, TypeStep, PTL DEF Spec

-----------------------------------------------------------------------------
(* Each new row is handed to one call, and fires at most once.             *)

(* A call has the key on the list of the direction, or matched it there.   *)
Holds(e, f) ==
    \/ f[2] = "plugin_new_cve_already_kev" /\ f[1] \in KeysOf(newPairs[e])
    \/ f[2] = "kev_new_plugin_already_exists" /\ f[1][1] \in newKevIds[e]
    \/ \E m \in matches[e] : f = <<KeyOf(m), m.reason>>

(* The row whose insertion makes the direction fire is in the store.       *)
Seen(f) ==
    \/ f[2] = "plugin_new_cve_already_kev" /\ plugin_cve_index[f[1]] # NoRow
    \/ f[2] = "kev_new_plugin_already_exists" /\ f[1][1] \in kev_cves

(* The inductive invariant: a key that has not fired is held by at most    *)
(* one call, and by none before its row is there; one that has fired is    *)
(* held by none.                                                           *)
OnceInv ==
    /\ \A f \in Key \X Reason : ~ Seen(f) =>
           fired[f] = 0 /\ \A e \in Engine : ~ Holds(e, f)
    /\ \A f \in Key \X Reason, e \in Engine : Holds(e, f) => fired[f] = 0
    /\ \A f \in Key \X Reason, d, e \in Engine : Holds(d, f) /\ Holds(e, f) => d = e
    /\ AtMostOncePerDirection

(* What a step other than a return may do: it takes hold of a key only by  *)
(* inserting its row.                                                      *)
TakesOnlyNew(e) ==
    /\ fired' = fired
    /\ \A f \in Key \X Reason : Seen(f) => Seen(f)'
    /\ \A f \in Key \X Reason, d \in Engine :
           Holds(d, f)' => Holds(d, f) \/ (d = e /\ ~ Seen(f) /\ Seen(f)')

LEMMA TakingOnlyNewKeepsOnce ==
    ASSUME OnceInv, NEW e \in Engine, TakesOnlyNew(e)
    PROVE  OnceInv'
  BY DEF OnceInv, TakesOnlyNew, AtMostOncePerDirection

LEMMA UpsertPluginsTakes ==
    ASSUME TypeOK, NEW e \in Engine, NEW batch \in PluginBatches,
           NEW kev \in SUBSET Cve, NEW min \in MinCvss,
           UpsertPlugins(e, batch, kev, min)
    PROVE  TakesOnlyNew(e)
  <1>1. /\ fired' = fired /\ kev_cves' = kev_cves
        /\ newKevIds' = newKevIds /\ matches' = matches
        /\ newPairs' = [newPairs EXCEPT ![e] = NewPairs(plugin_cve_index, batch)]
        /\ plugin_cve_index' = IndexAfterUpsert(plugin_cve_index, batch)
    BY DEF UpsertPlugins, history
  <1>2. plugin_cve_index \in [Key -> Score \cup {NoScore, NoRow}]
    BY DEF TypeOK
  <1>3. \A f \in Key \X Reason : Seen(f) => Seen(f)'
    BY <1>1, <1>2, IndexAfterUpsertType DEF Seen
  <1>4. \A key \in KeysOf(NewPairs(plugin_cve_index, batch)) :
            plugin_cve_index[key] = NoRow /\ plugin_cve_index'[key] # NoRow
    <2>1. \A p \in NewPairs(plugin_cve_index, batch) :
              /\ plugin_cve_index[KeyOf(p)] = NoRow
              /\ IndexAfterUpsert(plugin_cve_index, batch)[KeyOf(p)] # NoRow
      BY <1>2, NewPairsAreTheNewRows
    <2>2. QED
      BY <1>1, <2>1 DEF KeysOf
  <1>5. newPairs'[e] = NewPairs(plugin_cve_index, batch)
        /\ \A d \in Engine : d # e => newPairs'[d] = newPairs[d]
    BY <1>1 DEF TypeOK
  <1>6. \A f \in Key \X Reason, d \in Engine :
            Holds(d, f)' => Holds(d, f) \/ (d = e /\ ~ Seen(f) /\ Seen(f)')
    BY <1>1, <1>4, <1>5 DEF Holds, Seen, KeysOf
  <1>7. QED
    BY <1>1, <1>3, <1>6 DEF TakesOnlyNew

LEMMA UpsertKevTakes ==
    ASSUME TypeOK, NEW e \in Engine, UpsertKev(e)
    PROVE  TakesOnlyNew(e)
  <1>1. /\ fired' = fired /\ plugin_cve_index' = plugin_cve_index
        /\ newPairs' = newPairs /\ matches' = matches
        /\ kev_cves' = kev_cves \cup entries[e]
        /\ newKevIds' = [newKevIds EXCEPT ![e] = entries[e] \ kev_cves]
    BY DEF UpsertKev, history, KevAfterUpsert, NewKevIds
  <1>2. newKevIds'[e] = entries[e] \ kev_cves
        /\ \A d \in Engine : d # e => newKevIds'[d] = newKevIds[d]
    BY <1>1 DEF TypeOK
  <1>3. QED
    BY <1>1, <1>2 DEF TakesOnlyNew, Holds, Seen

LEMMA MatchNewPairTakes ==
    ASSUME TypeOK, NEW e \in Engine, MatchNewPair(e)
    PROVE  TakesOnlyNew(e)
  <1>1. PICK pair \in newPairs[e] :
            /\ newPairs' = [newPairs EXCEPT ![e] = @ \ {pair}]
            /\ matches' = [matches EXCEPT ![e] =
                   IF IsKev(kev_cves, pair.cve)
                   THEN @ \cup {MatchOfPair(pair)} ELSE @]
    BY DEF MatchNewPair
  <1>2. /\ fired' = fired /\ kev_cves' = kev_cves
        /\ plugin_cve_index' = plugin_cve_index /\ newKevIds' = newKevIds
    BY DEF MatchNewPair, store, history
  <1>3. /\ newPairs'[e] \subseteq newPairs[e]
        /\ matches'[e] \subseteq matches[e] \cup {MatchOfPair(pair)}
        /\ \A d \in Engine : d # e =>
               newPairs'[d] = newPairs[d] /\ matches'[d] = matches[d]
    BY <1>1 DEF TypeOK
  <1>4. KeyOf(MatchOfPair(pair)) = KeyOf(pair)
        /\ MatchOfPair(pair).reason = "plugin_new_cve_already_kev"
    BY DEF MatchOfPair
  <1>5. \A f \in Key \X Reason, d \in Engine : Holds(d, f)' => Holds(d, f)
    BY <1>1, <1>2, <1>3, <1>4 DEF Holds, KeysOf
  <1>6. QED
    BY <1>2, <1>5 DEF TakesOnlyNew, Seen

LEMMA MatchNewKevTakes ==
    ASSUME TypeOK, NEW e \in Engine, MatchNewKev(e)
    PROVE  TakesOnlyNew(e)
  <1>1. PICK cve \in newKevIds[e] :
            /\ newKevIds' = [newKevIds EXCEPT ![e] = @ \ {cve}]
            /\ matches' = [matches EXCEPT ![e] =
                   @ \cup {MatchOfRow(key) : key \in UnmatchedRows(e, cve)}]
    BY DEF MatchNewKev
  <1>2. /\ fired' = fired /\ kev_cves' = kev_cves
        /\ plugin_cve_index' = plugin_cve_index /\ newPairs' = newPairs
    BY DEF MatchNewKev, store, history
  <1>3. /\ newKevIds'[e] \subseteq newKevIds[e]
        /\ matches'[e] = matches[e] \cup {MatchOfRow(key) : key \in UnmatchedRows(e, cve)}
        /\ \A d \in Engine : d # e =>
               newKevIds'[d] = newKevIds[d] /\ matches'[d] = matches[d]
    BY <1>1 DEF TypeOK
  <1>4. \A key \in UnmatchedRows(e, cve) :
            /\ key \in Key /\ key[1] = cve
            /\ KeyOf(MatchOfRow(key)) = key
            /\ MatchOfRow(key).reason = "kev_new_plugin_already_exists"
    BY DEF UnmatchedRows, RowsForCve, MatchOfRow, TypeOK
  <1>5. \A f \in Key \X Reason, d \in Engine : Holds(d, f)' => Holds(d, f)
    BY <1>1, <1>2, <1>3, <1>4 DEF Holds
  <1>6. QED
    BY <1>2, <1>5 DEF TakesOnlyNew, Seen

LEMMA AbortTakes ==
    ASSUME TypeOK, NEW e \in Engine, Abort(e)
    PROVE  TakesOnlyNew(e)
  BY DEF TypeOK, Abort, TakesOnlyNew, Holds, Seen, KeysOf, store

(* A return counts each of its matches once, and lets go of every key.     *)
LEMMA ReturnKeepsOnce ==
    ASSUME TypeOK, OnceInv, NEW e \in Engine, Return(e)
    PROVE  OnceInv'
  <1>1. /\ kev_cves' = kev_cves /\ plugin_cve_index' = plugin_cve_index
        /\ newPairs' = newPairs /\ newKevIds' = newKevIds
        /\ newPairs[e] = {} /\ newKevIds[e] = {}
        /\ matches'[e] = {}
        /\ \A d \in Engine : d # e => matches'[d] = matches[d]
    BY DEF Return, store, TypeOK
  <1>2. \A f \in Key \X Reason :
            fired'[f] = IF \E m \in matches[e] : f = <<KeyOf(m), m.reason>>
                        THEN fired[f] + 1 ELSE fired[f]
    BY DEF Return, TypeOK
  <1>3. \A f \in Key \X Reason : ~ Holds(e, f)'
    BY <1>1 DEF Holds, KeysOf
  <1>4. \A f \in Key \X Reason, d \in Engine : Holds(d, f)' => d # e /\ Holds(d, f)
    BY <1>1, <1>3 DEF Holds
  <1>5. \A f \in Key \X Reason : Seen(f)' = Seen(f)
    BY <1>1 DEF Seen
  <1>6. \A f \in Key \X Reason : fired'[f] # fired[f] =>
            Holds(e, f) /\ fired[f] = 0 /\ fired'[f] = 1
    BY <1>2 DEF Holds, OnceInv
  <1>7. QED
    BY <1>4, <1>5, <1>6 DEF OnceInv, AtMostOncePerDirection

LEMMA OnceStep == TypeOK /\ OnceInv /\ [Next]_vars => OnceInv'
  <1> SUFFICES ASSUME TypeOK, OnceInv, [Next]_vars
               PROVE  OnceInv'
    OBVIOUS
  <1>1. CASE UNCHANGED vars
    BY <1>1 DEF vars, store, local, history, OnceInv, Holds, Seen,
                AtMostOncePerDirection
  <1>2. QED
    BY <1>1, UpsertPluginsTakes, UpsertKevTakes, MatchNewPairTakes,
       MatchNewKevTakes, AbortTakes, ReturnKeepsOnce, TakingOnlyNewKeepsOnce
    DEF Next, Proceed

(* However the calls overlap and wherever they are cut short, a pair fires *)
(* at most once as a new plugin and at most once as a new KEV entry.       *)
THEOREM FiresAtMostOnce == Spec => []AtMostOncePerDirection
  <1>1. Init => OnceInv
    BY DEF Init, OnceInv, Holds, KeysOf, AtMostOncePerDirection
  <1>2. OnceInv => AtMostOncePerDirection
    BY DEF OnceInv
  <1>3. QED
    BY <1>1, <1>2, OnceStep, TypeCorrect, PTL DEF Spec

-----------------------------------------------------------------------------
(* Nothing is missed but what dies with a call.                            *)

(* A call that is not running holds nothing, and one that has its KEV      *)
(* entries still to upsert has matched nothing yet: what the next access   *)
(* overwrites is empty.                                                    *)
ListsEmpty ==
    \A e \in Engine :
        /\ pc[e] = "idle" => newPairs[e] = {}
        /\ pc[e] \in {"idle", "upsert_kev"} => newKevIds[e] = {} /\ matches[e] = {}

LEMMA ListsEmptyStep == TypeOK /\ ListsEmpty /\ [Next]_vars => ListsEmpty'
  <1> SUFFICES ASSUME TypeOK, ListsEmpty, [Next]_vars
               PROVE  ListsEmpty'
    OBVIOUS
  <1> USE DEF TypeOK, ListsEmpty
  <1>1. ASSUME NEW e \in Engine, NEW batch \in PluginBatches,
               NEW kev \in SUBSET Cve, NEW min \in MinCvss,
               UpsertPlugins(e, batch, kev, min)
        PROVE  ListsEmpty'
    BY <1>1 DEF UpsertPlugins
  <1>2. ASSUME NEW e \in Engine, UpsertKev(e)
        PROVE  ListsEmpty'
    BY <1>2 DEF UpsertKev
  <1>3. ASSUME NEW e \in Engine, MatchNewPair(e)
        PROVE  ListsEmpty'
    BY <1>3 DEF MatchNewPair
  <1>4. ASSUME NEW e \in Engine, MatchNewKev(e)
        PROVE  ListsEmpty'
    BY <1>4 DEF MatchNewKev
  <1>5. ASSUME NEW e \in Engine, Return(e)
        PROVE  ListsEmpty'
    BY <1>5 DEF Return
  <1>6. ASSUME NEW e \in Engine, Abort(e)
        PROVE  ListsEmpty'
    BY <1>6 DEF Abort
  <1>7. CASE UNCHANGED vars
    BY <1>7 DEF vars, local
  <1>8. QED
    BY <1>1, <1>2, <1>3, <1>4, <1>5, <1>6, <1>7 DEF Next, Proceed

LEMMA UpsertPluginsMissesNothing ==
    ASSUME TypeOK, ListsEmpty, NothingMissed, NEW e \in Engine,
           NEW batch \in PluginBatches, NEW kev \in SUBSET Cve,
           NEW min \in MinCvss, UpsertPlugins(e, batch, kev, min)
    PROVE  NothingMissed'
  <1>1. /\ pc[e] = "idle" /\ fired' = fired /\ lost' = lost /\ kev_cves' = kev_cves
        /\ newKevIds' = newKevIds /\ matches' = matches
        /\ newPairs'[e] = NewPairs(plugin_cve_index, batch)
        /\ \A d \in Engine : d # e => newPairs'[d] = newPairs[d]
        /\ plugin_cve_index' = IndexAfterUpsert(plugin_cve_index, batch)
    BY DEF UpsertPlugins, history, TypeOK
  <1>2. \A key \in Key : ~ Pending(e, key)
    BY <1>1 DEF ListsEmpty, Pending, KeysOf
  <1>3. \A key \in Key, d \in Engine : Pending(d, key) => Pending(d, key)'
    BY <1>1, <1>2 DEF Pending
  <1>4. \A key \in Key : Fired(key)' = Fired(key)
    BY <1>1 DEF Fired
  <1>5. ASSUME NEW key \in Key, key \in Actionable', key \notin Actionable
        PROVE  Pending(e, key)'
    <2>1. plugin_cve_index[key] = NoRow /\ plugin_cve_index'[key] # NoRow
      BY <1>1, <1>5 DEF Actionable
    <2>2. key \in KeysOf(NewPairs(plugin_cve_index, batch))
      BY <1>1, <2>1, NewPairsAreTheNewRows DEF TypeOK
    <2>3. QED
      BY <1>1, <2>2 DEF Pending
  <1>6. QED
    BY <1>1, <1>3, <1>4, <1>5 DEF NothingMissed, Actionable

LEMMA UpsertKevMissesNothing ==
    ASSUME TypeOK, ListsEmpty, NothingMissed, NEW e \in Engine, UpsertKev(e)
    PROVE  NothingMissed'
  <1>1. /\ pc[e] = "upsert_kev" /\ fired' = fired /\ lost' = lost
        /\ plugin_cve_index' = plugin_cve_index
        /\ newPairs' = newPairs /\ matches' = matches
        /\ kev_cves' = kev_cves \cup entries[e]
        /\ newKevIds'[e] = entries[e] \ kev_cves
        /\ \A d \in Engine : d # e => newKevIds'[d] = newKevIds[d]
    BY DEF UpsertKev, history, KevAfterUpsert, NewKevIds, TypeOK
  <1>2. newKevIds[e] = {}
    BY <1>1 DEF ListsEmpty
  <1>3. \A key \in Key, d \in Engine : Pending(d, key) => Pending(d, key)'
    BY <1>1, <1>2 DEF Pending
  <1>4. \A key \in Key : Fired(key)' = Fired(key)
    BY <1>1 DEF Fired
  <1>5. \A key \in Key : key \in Actionable' /\ key \notin Actionable
            => Pending(e, key)'
    BY <1>1 DEF Actionable, Pending
  <1>6. QED
    BY <1>1, <1>3, <1>4, <1>5 DEF NothingMissed, Actionable

LEMMA MatchNewPairMissesNothing ==
    ASSUME TypeOK, NothingMissed, NEW e \in Engine, MatchNewPair(e)
    PROVE  NothingMissed'
  <1>1. PICK pair \in newPairs[e] :
            /\ newPairs' = [newPairs EXCEPT ![e] = @ \ {pair}]
            /\ matches' = [matches EXCEPT ![e] =
                   IF IsKev(kev_cves, pair.cve)
                   THEN @ \cup {MatchOfPair(pair)} ELSE @]
    BY DEF MatchNewPair
  <1>2. /\ fired' = fired /\ lost' = lost /\ kev_cves' = kev_cves
        /\ plugin_cve_index' = plugin_cve_index /\ newKevIds' = newKevIds
    BY DEF MatchNewPair, store, history
  <1>3. /\ newPairs'[e] = newPairs[e] \ {pair}
        /\ matches[e] \subseteq matches'[e]
        /\ pair.cve \in kev_cves => MatchOfPair(pair) \in matches'[e]
        /\ \A d \in Engine : d # e =>
               newPairs'[d] = newPairs[d] /\ matches'[d] = matches[d]
    BY <1>1 DEF TypeOK, IsKev
  <1>4. KeyOf(MatchOfPair(pair)) = KeyOf(pair)
    BY DEF MatchOfPair
  <1>5. \A key \in Key : Fired(key)' = Fired(key)
    BY <1>2 DEF Fired
  <1>6. ASSUME NEW key \in Actionable, NEW d \in Engine, Pending(d, key)
        PROVE  Pending(d, key)'
    <2>1. CASE d # e
      BY <1>2, <1>3, <1>6, <2>1 DEF Pending
    <2>2. CASE d = e /\ key = KeyOf(pair)
      <3>1. MatchOfPair(pair) \in matches'[e]
        BY <1>3, <2>2 DEF Actionable
      <3>2. QED
        BY <1>4, <2>2, <3>1 DEF Pending, KeysOf
    <2>3. CASE d = e /\ key # KeyOf(pair)
      BY <1>2, <1>3, <1>6, <2>3 DEF Pending, KeysOf
    <2>4. QED
      BY <2>1, <2>2, <2>3
  <1>7. Actionable' = Actionable
    BY <1>2 DEF Actionable
  <1>8. QED
    BY <1>2, <1>5, <1>6, <1>7 DEF NothingMissed, Actionable

LEMMA MatchNewKevMissesNothing ==
    ASSUME TypeOK, NothingMissed, NEW e \in Engine, MatchNewKev(e)
    PROVE  NothingMissed'
  <1>1. PICK cve \in newKevIds[e] :
            /\ newKevIds' = [newKevIds EXCEPT ![e] = @ \ {cve}]
            /\ matches' = [matches EXCEPT ![e] =
                   @ \cup {MatchOfRow(key) : key \in UnmatchedRows(e, cve)}]
    BY DEF MatchNewKev
  <1>2. /\ fired' = fired /\ lost' = lost /\ kev_cves' = kev_cves
        /\ plugin_cve_index' = plugin_cve_index /\ newPairs' = newPairs
    BY DEF MatchNewKev, store, history
  <1>3. /\ newKevIds'[e] = newKevIds[e] \ {cve}
        /\ matches'[e] = matches[e] \cup {MatchOfRow(key) : key \in UnmatchedRows(e, cve)}
        /\ \A d \in Engine : d # e =>
               newKevIds'[d] = newKevIds[d] /\ matches'[d] = matches[d]
    BY <1>1 DEF TypeOK
  <1>4. ASSUME NEW key \in Actionable, key[1] = cve
        PROVE  key \in KeysOf(matches'[e])
    <2>1. key \in RowsForCve(plugin_cve_index, cve)
      BY <1>4 DEF Actionable, RowsForCve, TypeOK
    <2>2. CASE key \in KeysOf(matches[e])
      BY <1>3, <2>2 DEF KeysOf
    <2>3. CASE key \in UnmatchedRows(e, cve)
      <3>1. MatchOfRow(key) \in matches'[e]
        BY <1>3, <2>3
      <3>2. KeyOf(MatchOfRow(key)) = key
        BY DEF MatchOfRow, Actionable
      <3>3. QED
        BY <3>1, <3>2 DEF KeysOf
    <2>4. QED
      BY <2>1, <2>2, <2>3 DEF UnmatchedRows
  <1>5. \A key \in Key : Fired(key)' = Fired(key)
    BY <1>2 DEF Fired
  <1>6. ASSUME NEW key \in Actionable, NEW d \in Engine, Pending(d, key)
        PROVE  Pending(d, key)'
    <2>1. CASE d # e
      BY <1>2, <1>3, <1>6, <2>1 DEF Pending
    <2>2. CASE d = e /\ key[1] = cve
      BY <1>4, <2>2 DEF Pending
    <2>3. CASE d = e /\ key[1] # cve
      BY <1>2, <1>3, <1>6, <2>3 DEF Pending, KeysOf
    <2>4. QED
      BY <2>1, <2>2, <2>3
  <1>7. Actionable' = Actionable
    BY <1>2 DEF Actionable
  <1>8. QED
    BY <1>2, <1>5, <1>6, <1>7 DEF NothingMissed, Actionable

LEMMA ReturnMissesNothing ==
    ASSUME TypeOK, NothingMissed, NEW e \in Engine, Return(e)
    PROVE  NothingMissed'
  <1>1. /\ kev_cves' = kev_cves /\ plugin_cve_index' = plugin_cve_index
        /\ newPairs' = newPairs /\ newKevIds' = newKevIds
        /\ newPairs[e] = {} /\ newKevIds[e] = {} /\ lost' = lost
        /\ \A d \in Engine : d # e => matches'[d] = matches[d]
    BY DEF Return, store, TypeOK
  <1>2. \A f \in Key \X Reason :
            /\ fired[f] \in Nat
            /\ fired'[f] = IF \E m \in matches[e] : f = <<KeyOf(m), m.reason>>
                           THEN fired[f] + 1 ELSE fired[f]
    BY DEF Return, TypeOK
  <1>3. \A key \in Key : Fired(key) => Fired(key)'
    BY <1>2 DEF Fired
  <1>4. \A key \in Key, d \in Engine : d # e /\ Pending(d, key) => Pending(d, key)'
    BY <1>1 DEF Pending
  <1>5. ASSUME NEW key \in Key, Pending(e, key)
        PROVE  Fired(key)'
    <2>1. PICK m \in matches[e] : key = KeyOf(m)
      BY <1>1, <1>5 DEF Pending, KeysOf
    <2>2. m.reason \in Reason
      BY <2>1 DEF TypeOK, Match
    <2>3. fired'[<<key, m.reason>>] > 0
      BY <1>2, <2>1, <2>2
    <2>4. QED
      BY <2>2, <2>3 DEF Fired
  <1>6. Actionable' = Actionable
    BY <1>1 DEF Actionable
  <1>7. QED
    BY <1>1, <1>3, <1>4, <1>5, <1>6 DEF NothingMissed, Actionable

(* What dies with a call is counted as lost, if it was actionable; a key   *)
(* that was not will be on the list of the call that makes it so.          *)
LEMMA AbortMissesNothing ==
    ASSUME TypeOK, NothingMissed, NEW e \in Engine, Abort(e)
    PROVE  NothingMissed'
  <1>1. /\ kev_cves' = kev_cves /\ plugin_cve_index' = plugin_cve_index
        /\ fired' = fired
        /\ lost' = lost \cup {key \in Actionable : Pending(e, key)}
        /\ \A d \in Engine : d # e => newPairs'[d] = newPairs[d]
               /\ newKevIds'[d] = newKevIds[d] /\ matches'[d] = matches[d]
    BY DEF Abort, store, TypeOK
  <1>2. Actionable' = Actionable /\ \A key \in Key : Fired(key)' = Fired(key)
    BY <1>1 DEF Actionable, Fired
  <1>3. \A key \in Key, d \in Engine : d # e /\ Pending(d, key) => Pending(d, key)'
    BY <1>1 DEF Pending
  <1>4. QED
    BY <1>1, <1>2, <1>3 DEF NothingMissed, Actionable

(* No step of a call loses a pair but an abort, which books it.            *)
LEMMA MissedNothingStep ==
    TypeOK /\ ListsEmpty /\ NothingMissed /\ [Next]_vars => NothingMissed'
  <1> SUFFICES ASSUME TypeOK, ListsEmpty, NothingMissed, [Next]_vars
               PROVE  NothingMissed'
    OBVIOUS
  <1>1. CASE UNCHANGED vars
    BY <1>1 DEF vars, store, local, history, NothingMissed, Actionable,
                Fired, Pending, KeysOf
  <1>2. QED
    BY <1>1, UpsertPluginsMissesNothing, UpsertKevMissesNothing,
       MatchNewPairMissesNothing, MatchNewKevMissesNothing, ReturnMissesNothing,
       AbortMissesNothing
    DEF Next, Proceed

(* However calls overlap and die, no pair with both rows in the store is   *)
(* missed, other than those whose call died while it held them.            *)
THEOREM NothingIsMissed == Spec => []NothingMissed
  <1>1. Init => ListsEmpty /\ NothingMissed
    BY DEF Init, ListsEmpty, NothingMissed, Actionable
  <1>2. QED
    BY <1>1, MissedNothingStep, ListsEmptyStep, TypeCorrect, PTL DEF Spec

-----------------------------------------------------------------------------
(* One call matches a key at most once.                                    *)

(* The new pairs of a call have different keys, and none that the call has *)
(* matched: direction 1 takes each pair off its list, and direction 2      *)
(* begins when that list is empty.                                         *)
KeysApart ==
    \A e \in Engine :
        /\ \A p, q \in newPairs[e] : KeyOf(p) = KeyOf(q) => p = q
        /\ \A p \in newPairs[e], m \in matches[e] : KeyOf(p) # KeyOf(m)

OneInv == KeysApart /\ OneMatchPerCall

(* Only the lists of the call that moves have to be looked at.             *)
LEMMA OneInvOfOthers ==
    ASSUME OneInv, NEW e \in Engine,
           \A d \in Engine : d # e => newPairs'[d] = newPairs[d] /\ matches'[d] = matches[d],
           \A p, q \in newPairs'[e] : KeyOf(p) = KeyOf(q) => p = q,
           \A p \in newPairs'[e], m \in matches'[e] : KeyOf(p) # KeyOf(m),
           \A m, n \in matches'[e] : KeyOf(m) = KeyOf(n) => m = n
    PROVE  OneInv'
  BY DEF OneInv, KeysApart, OneMatchPerCall

LEMMA OneInvStep == TypeOK /\ ListsEmpty /\ OneInv /\ [Next]_vars => OneInv'
  <1> SUFFICES ASSUME TypeOK, ListsEmpty, OneInv, [Next]_vars
               PROVE  OneInv'
    OBVIOUS
  <1>1. ASSUME NEW e \in Engine, NEW batch \in PluginBatches,
               NEW kev \in SUBSET Cve, NEW min \in MinCvss,
               UpsertPlugins(e, batch, kev, min)
        PROVE  OneInv'
    <2>1. /\ newPairs'[e] = NewPairs(plugin_cve_index, batch)
          /\ matches' = matches /\ matches[e] = {}
          /\ \A d \in Engine : d # e => newPairs'[d] = newPairs[d]
      BY <1>1 DEF UpsertPlugins, ListsEmpty, TypeOK
    <2>2. \A p, q \in NewPairs(plugin_cve_index, batch) : KeyOf(p) = KeyOf(q) => p = q
      BY NewPairsAreTheNewRows DEF TypeOK
    <2>3. QED
      BY <2>1, <2>2, OneInvOfOthers
  <1>2. ASSUME NEW e \in Engine, MatchNewPair(e)
        PROVE  OneInv'
    <2>1. PICK pair \in newPairs[e] :
              /\ newPairs' = [newPairs EXCEPT ![e] = @ \ {pair}]
              /\ matches' = [matches EXCEPT ![e] =
                     IF IsKev(kev_cves, pair.cve)
                     THEN @ \cup {MatchOfPair(pair)} ELSE @]
      BY <1>2 DEF MatchNewPair
    <2>2. /\ newPairs'[e] = newPairs[e] \ {pair}
          /\ matches'[e] \subseteq matches[e] \cup {MatchOfPair(pair)}
          /\ \A d \in Engine : d # e =>
                 newPairs'[d] = newPairs[d] /\ matches'[d] = matches[d]
      BY <2>1 DEF TypeOK
    <2>3. KeyOf(MatchOfPair(pair)) = KeyOf(pair)
      BY DEF MatchOfPair
    <2>4. /\ \A p, q \in newPairs[e] : KeyOf(p) = KeyOf(q) => p = q
          /\ \A p \in newPairs[e], m \in matches[e] : KeyOf(p) # KeyOf(m)
          /\ \A m, n \in matches[e] : KeyOf(m) = KeyOf(n) => m = n
      BY DEF OneInv, KeysApart, OneMatchPerCall
    <2> HIDE DEF KeyOf
    <2>5. \A p, q \in newPairs'[e] : KeyOf(p) = KeyOf(q) => p = q
      BY <2>2, <2>4
    <2>6. \A p \in newPairs'[e], m \in matches'[e] : KeyOf(p) # KeyOf(m)
      BY <2>1, <2>2, <2>3, <2>4
    <2>7. \A m, n \in matches'[e] : KeyOf(m) = KeyOf(n) => m = n
      BY <2>1, <2>2, <2>3, <2>4
    <2>8. QED
      BY <2>2, <2>5, <2>6, <2>7, OneInvOfOthers
  <1>3. ASSUME NEW e \in Engine, MatchNewKev(e)
        PROVE  OneInv'
    <2>1. PICK cve \in newKevIds[e] :
              matches' = [matches EXCEPT ![e] =
                  @ \cup {MatchOfRow(key) : key \in UnmatchedRows(e, cve)}]
      BY <1>3 DEF MatchNewKev
    <2>2. /\ newPairs' = newPairs /\ newPairs[e] = {}
          /\ matches'[e] = matches[e] \cup {MatchOfRow(key) : key \in UnmatchedRows(e, cve)}
          /\ \A d \in Engine : d # e => matches'[d] = matches[d]
      BY <1>3, <2>1 DEF MatchNewKev, TypeOK
    <2>3. \A key \in UnmatchedRows(e, cve) :
              KeyOf(MatchOfRow(key)) = key /\ key \notin KeysOf(matches[e])
      BY DEF UnmatchedRows, RowsForCve, MatchOfRow, TypeOK
    <2>4. \A m, n \in matches[e] : KeyOf(m) = KeyOf(n) => m = n
      BY DEF OneInv, OneMatchPerCall
    <2> HIDE DEF KeyOf
    <2>5. \A m, n \in matches'[e] : KeyOf(m) = KeyOf(n) => m = n
      BY <2>2, <2>3, <2>4 DEF KeysOf
    <2>6. QED
      BY <2>2, <2>5, OneInvOfOthers
  <1>4. ASSUME NEW e \in Engine, UpsertKev(e) \/ Return(e) \/ Abort(e)
        PROVE  OneInv'
    <2>1. /\ newPairs'[e] \subseteq newPairs[e] /\ matches'[e] \subseteq matches[e]
          /\ \A d \in Engine : d # e => newPairs'[d] = newPairs[d] /\ matches'[d] = matches[d]
      BY <1>4 DEF UpsertKev, Return, Abort, TypeOK
    <2> HIDE DEF KeyOf
    <2>2. QED
      BY <2>1, OneInvOfOthers DEF OneInv, KeysApart, OneMatchPerCall
  <1>5. CASE UNCHANGED vars
    BY <1>5 DEF vars, local, OneInv, KeysApart, OneMatchPerCall
  <1>6. QED
    BY <1>1, <1>2, <1>3, <1>4, <1>5 DEF Next, Proceed

(* One call of run_cycle matches a pair at most once, even when both       *)
(* directions find it.                                                     *)
THEOREM MatchesOncePerCall == Spec => []OneMatchPerCall
  <1>1. Init => ListsEmpty /\ OneInv
    BY DEF Init, ListsEmpty, OneInv, KeysApart, OneMatchPerCall
  <1>2. OneInv => OneMatchPerCall
    BY DEF OneInv
  <1>3. QED
    BY <1>1, <1>2, ListsEmptyStep, OneInvStep, TypeCorrect, PTL DEF Spec

-----------------------------------------------------------------------------
(* The calls implement the ledger.                                         *)

(* What a call holds, it holds for a reason that is in the store.          *)
HeldInv ==
    \A e \in Engine :
        /\ \A p \in newPairs[e] : plugin_cve_index[KeyOf(p)] # NoRow
        /\ newKevIds[e] \subseteq kev_cves
        /\ \A m \in matches[e] : KeyOf(m) \in Actionable

(* The step of the ledger that a step of a call is, or none.               *)
Grows ==
    /\ \A key \in Key : plugin_cve_index[key] # NoRow => plugin_cve_index'[key] # NoRow
    /\ kev_cves \subseteq kev_cves' /\ kev_cves' \subseteq Cve
    /\ fired' = fired

(* What has been announced stays actionable, since no row goes away.       *)
AnnouncedInv == \A key \in Key : Fired(key) => key \in Actionable

LEMMA GrowingKeepsAnnounced ==
    ASSUME AnnouncedInv, Grows
    PROVE  AnnouncedInv'
  BY DEF AnnouncedInv, Grows, Fired, Actionable

LEMMA UpsertPluginsHeld ==
    ASSUME TypeOK, HeldInv, NEW e \in Engine, NEW batch \in PluginBatches,
           NEW kev \in SUBSET Cve, NEW min \in MinCvss,
           UpsertPlugins(e, batch, kev, min)
    PROVE  HeldInv' /\ Grows
  <1>1. /\ fired' = fired /\ kev_cves' = kev_cves
        /\ newKevIds' = newKevIds /\ matches' = matches
        /\ newPairs'[e] = NewPairs(plugin_cve_index, batch)
        /\ \A d \in Engine : d # e => newPairs'[d] = newPairs[d]
        /\ plugin_cve_index' = IndexAfterUpsert(plugin_cve_index, batch)
    BY DEF UpsertPlugins, history, TypeOK
  <1>2. \A key \in Key : plugin_cve_index[key] # NoRow => plugin_cve_index'[key] # NoRow
    BY <1>1, IndexAfterUpsertType DEF TypeOK
  <1>3. \A p \in newPairs'[e] : plugin_cve_index'[KeyOf(p)] # NoRow
    <2>1. \A p \in NewPairs(plugin_cve_index, batch) :
              IndexAfterUpsert(plugin_cve_index, batch)[KeyOf(p)] # NoRow
      BY NewPairsAreTheNewRows DEF TypeOK
    <2>2. QED
      BY <1>1, <2>1
  <1>4. \A d \in Engine : \A p \in newPairs[d] : KeyOf(p) \in Key
    BY DEF TypeOK, NewPair
  <1>5. Actionable \subseteq Actionable'
    BY <1>1, <1>2 DEF Actionable
  <1> HIDE DEF KeyOf
  <1>6. HeldInv'
    BY <1>1, <1>2, <1>3, <1>4, <1>5 DEF HeldInv
  <1>7. QED
    BY <1>1, <1>2, <1>6 DEF Grows, TypeOK

LEMMA UpsertKevHeld ==
    ASSUME TypeOK, HeldInv, NEW e \in Engine, UpsertKev(e)
    PROVE  HeldInv' /\ Grows
  <1>1. /\ fired' = fired /\ plugin_cve_index' = plugin_cve_index
        /\ newPairs' = newPairs /\ matches' = matches
        /\ kev_cves' = kev_cves \cup entries[e]
        /\ newKevIds'[e] = entries[e] \ kev_cves
        /\ \A d \in Engine : d # e => newKevIds'[d] = newKevIds[d]
    BY DEF UpsertKev, history, KevAfterUpsert, NewKevIds, TypeOK
  <1>2. Actionable \subseteq Actionable'
    BY <1>1 DEF Actionable
  <1>3. QED
    BY <1>1, <1>2 DEF HeldInv, Grows, TypeOK

LEMMA MatchHeld ==
    ASSUME TypeOK, HeldInv, NEW e \in Engine, MatchNewPair(e) \/ MatchNewKev(e)
    PROVE  HeldInv' /\ Grows
  <1>1. /\ fired' = fired /\ kev_cves' = kev_cves
        /\ plugin_cve_index' = plugin_cve_index
    BY DEF MatchNewPair, MatchNewKev, store, history
  <1>2. Actionable' = Actionable /\ Grows
    BY <1>1 DEF Actionable, Grows, TypeOK
  <1>3. CASE MatchNewPair(e)
    <2>1. PICK pair \in newPairs[e] :
              /\ newPairs' = [newPairs EXCEPT ![e] = @ \ {pair}]
              /\ matches' = [matches EXCEPT ![e] =
                     IF IsKev(kev_cves, pair.cve)
                     THEN @ \cup {MatchOfPair(pair)} ELSE @]
      BY <1>3 DEF MatchNewPair
    <2>2. pair.cve \in kev_cves => KeyOf(MatchOfPair(pair)) \in Actionable
      BY DEF HeldInv, Actionable, MatchOfPair, TypeOK, NewPair
    <2>3. newKevIds' = newKevIds
      BY <1>3 DEF MatchNewPair
    <2> HIDE DEF KeyOf
    <2>4. QED
      BY <1>1, <1>2, <2>1, <2>2, <2>3 DEF HeldInv, IsKev, TypeOK
  <1>4. CASE MatchNewKev(e)
    <2>1. PICK cve \in newKevIds[e] :
              /\ newKevIds' = [newKevIds EXCEPT ![e] = @ \ {cve}]
              /\ matches' = [matches EXCEPT ![e] =
                     @ \cup {MatchOfRow(key) : key \in UnmatchedRows(e, cve)}]
      BY <1>4 DEF MatchNewKev
    <2>2. \A key \in UnmatchedRows(e, cve) : KeyOf(MatchOfRow(key)) \in Actionable
      <3>1. cve \in kev_cves
        BY <2>1 DEF HeldInv
      <3>2. \A key \in UnmatchedRows(e, cve) : key \in Actionable
        BY <3>1 DEF Actionable, UnmatchedRows, RowsForCve, TypeOK
      <3>3. \A key \in Actionable : KeyOf(MatchOfRow(key)) = key
        BY DEF Actionable, MatchOfRow
      <3>4. QED
        BY <3>2, <3>3
    <2>3. newPairs' = newPairs
      BY <1>4 DEF MatchNewKev
    <2> HIDE DEF KeyOf
    <2>4. QED
      BY <1>1, <1>2, <2>1, <2>2, <2>3 DEF HeldInv, TypeOK
  <1>5. QED
    BY <1>3, <1>4

LEMMA AbortHeld ==
    ASSUME TypeOK, HeldInv, NEW e \in Engine, Abort(e)
    PROVE  HeldInv' /\ Grows
  BY DEF Abort, HeldInv, Actionable, Grows, TypeOK, store

(* A return announces actionable pairs, and nothing else changes.          *)
LEMMA ReturnAnnounces ==
    ASSUME TypeOK, HeldInv, AnnouncedInv, NEW e \in Engine, Return(e)
    PROVE  HeldInv' /\ AnnouncedInv' /\ Ledger!Announce
  <1>1. /\ kev_cves' = kev_cves /\ plugin_cve_index' = plugin_cve_index
        /\ newPairs' = newPairs /\ newKevIds' = newKevIds
        /\ matches'[e] = {}
        /\ \A d \in Engine : d # e => matches'[d] = matches[d]
    BY DEF Return, store, TypeOK
  <1>2. \A f \in Key \X Reason :
            /\ fired[f] \in Nat
            /\ fired'[f] = IF \E m \in matches[e] : f = <<KeyOf(m), m.reason>>
                           THEN fired[f] + 1 ELSE fired[f]
    BY DEF Return, TypeOK
  <1>3. Actionable' = Actionable
    BY <1>1 DEF Actionable
  <1>4. HeldInv'
    BY <1>1, <1>3 DEF HeldInv
  <1>5. \A key \in Key : Fired(key) => Fired(key)'
    BY <1>2 DEF Fired
  <1>6. ASSUME NEW key \in Key, Fired(key)'
        PROVE  key \in Actionable
    <2>1. PICK r \in Reason : fired'[<<key, r>>] > 0
      BY <1>6 DEF Fired
    <2>2. CASE \E m \in matches[e] : <<key, r>> = <<KeyOf(m), m.reason>>
      BY <2>2 DEF HeldInv
    <2>3. CASE ~ \E m \in matches[e] : <<key, r>> = <<KeyOf(m), m.reason>>
      BY <1>2, <2>1, <2>3 DEF Fired, AnnouncedInv
    <2>4. QED
      BY <2>2, <2>3
  <1>7. Ledger!Actionable = Actionable
    BY DEF Ledger!Actionable, Actionable
  <1>8. /\ {key \in Key : Fired(key)} \subseteq {key \in Key : Fired(key)}'
        /\ {key \in Key : Fired(key)}' \subseteq Ledger!Actionable
    BY <1>5, <1>6, <1>7
  <1>9. AnnouncedInv'
    BY <1>3, <1>6 DEF AnnouncedInv
  <1>10. QED
    BY <1>1, <1>4, <1>8, <1>9 DEF Ledger!Announce

(* Every step of the calls is a step of the ledger or leaves it alone: an  *)
(* upsert is a Learn, a return an Announce, and the lookups stutter.       *)
LEMMA StepRefines ==
    TypeOK /\ HeldInv /\ AnnouncedInv /\ [Next]_vars
        => HeldInv' /\ AnnouncedInv' /\ [Ledger!Next]_Ledger!vars
  <1> SUFFICES ASSUME TypeOK, HeldInv, AnnouncedInv, [Next]_vars
               PROVE  HeldInv' /\ AnnouncedInv' /\ [Ledger!Next]_Ledger!vars
    OBVIOUS
  <1>1. ASSUME Grows
        PROVE  AnnouncedInv' /\ Ledger!Learn
    <2>1. AnnouncedInv'
      BY <1>1, GrowingKeepsAnnounced
    <2>2. \A key \in Key : Fired(key)' = Fired(key)
      BY <1>1 DEF Grows, Fired
    <2>3. {key \in Key : Fired(key)}' = {key \in Key : Fired(key)}
      BY <2>2
    <2>4. QED
      BY <1>1, <2>1, <2>3 DEF Grows, Ledger!Learn, Ledger!Pair
  <1>2. CASE \E e \in Engine : \E batch \in PluginBatches, kev \in SUBSET Cve,
                 min \in MinCvss : UpsertPlugins(e, batch, kev, min)
    BY <1>1, <1>2, UpsertPluginsHeld DEF Ledger!Next
  <1>3. CASE \E e \in Engine : UpsertKev(e) \/ MatchNewPair(e) \/ MatchNewKev(e)
                                   \/ Abort(e)
    BY <1>1, <1>3, UpsertKevHeld, MatchHeld, AbortHeld DEF Ledger!Next
  <1>4. CASE \E e \in Engine : Return(e)
    BY <1>4, ReturnAnnounces DEF Ledger!Next
  <1>5. CASE UNCHANGED vars
    <2>1. UNCHANGED <<kev_cves, plugin_cve_index, newPairs, newKevIds, matches, fired>>
      BY <1>5 DEF vars, store, local, history
    <2>2. HeldInv' /\ Actionable' = Actionable
      BY <2>1 DEF HeldInv, Actionable
    <2>3. Grows
      BY <2>1 DEF Grows, TypeOK
    <2>4. QED
      BY <1>1, <2>2, <2>3 DEF Ledger!Next
  <1>6. QED
    BY <1>2, <1>3, <1>4, <1>5 DEF Next, Proceed

(* However the calls overlap and wherever they are cut short, together     *)
(* they are the ledger: a pair is announced only with both of its facts    *)
(* committed, and neither facts nor announcements are ever taken back.     *)
THEOREM CallsImplementLedger == Spec => ImplementsLedger
  <1>1. Init => HeldInv /\ AnnouncedInv /\ Ledger!Init
    BY DEF Init, HeldInv, AnnouncedInv, Fired, Ledger!Init
  <1>2. QED
    BY <1>1, StepRefines, TypeCorrect, PTL DEF Spec, ImplementsLedger, Ledger!Spec
===============================================================================
