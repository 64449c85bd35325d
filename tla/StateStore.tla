------------------------------ MODULE StateStore ------------------------------
(***************************************************************************)
(* The tables of the SQLite store (state.py) and what each of its methods  *)
(* computes from them.                                                     *)
(*                                                                         *)
(* A StateStore holds one lock around every method and commits before it   *)
(* releases it, so a method is one atomic step of the thread that calls    *)
(* it.  StoreTransactions has the methods statement by statement, with     *)
(* other processes and with calls that raise, and shows that they          *)
(* implement AtomicStore: one step each, with rows of calls that raised.   *)
(* The operators below are therefore functions from the table before the   *)
(* step to the table after it, or to the method's return value; the        *)
(* modules that own a table as a variable build their actions from them.   *)
(***************************************************************************)
EXTENDS Integers, Sequences, FiniteSets

CONSTANT NoRow   \* a (cve, plugin) key that plugin_cve_index holds no row for

-----------------------------------------------------------------------------
(* The KEV table: the set of CVE ids ever seen in the catalog.             *)

\* Mutant: the transaction is not committed.
KevNotCommitted(kev_cves, entries) == kev_cves

\* upsert_kev: rows are inserted when absent and never changed or removed.
KevAfterUpsert(kev_cves, entries) == kev_cves \cup entries

\* Mutant: every polled id is returned as new.
AllKevIds(kev_cves, entries) == entries

\* Mutant: the known ids are read after the insert.
NewKevIdsAfterInsert(kev_cves, entries) == entries \ (kev_cves \cup entries)

\* The return value of upsert_kev: the ids that were not yet known.
NewKevIds(kev_cves, entries) == entries \ kev_cves

IsKev(kev_cves, cve) == cve \in kev_cves

-----------------------------------------------------------------------------
(* The plugin index: a function from <<cve, plugin>> keys to the row's     *)
(* CVSS score, or NoRow.  A poll result ("batch") is a function from the   *)
(* keys its records list to [first, last]: the score in the first and in   *)
(* the last record that lists the key.  A plugin that moves down the pages *)
(* while they are fetched is on two of them, and may have been revised.    *)

\* upsert_plugins inserts a row for a new key, and refreshes the score of
\* the row of a key that is already there, one record after the other.
IndexAfterUpsert(index, batch) ==
    [key \in DOMAIN index |->
        IF key \in DOMAIN batch THEN batch[key].last ELSE index[key]]

\* Mutant: a plugin that has any row is not new, whatever CVE it adds.
PairsOfNewPlugins(index, batch) ==
    {[cve |-> key[1], plugin |-> key[2], score |-> batch[key].first] :
        key \in {k \in DOMAIN index :
                    /\ k \in DOMAIN batch
                    /\ \A l \in DOMAIN index : l[2] = k[2] => index[l] = NoRow}}

\* The return value of upsert_plugins: the keys whose row is new, with the
\* score of the Plugin object it was inserted from.  A refreshed row is not
\* in it.
NewPairs(index, batch) ==
    {[cve |-> key[1], plugin |-> key[2], score |-> batch[key].first] :
        key \in {k \in DOMAIN index : k \in DOMAIN batch /\ index[k] = NoRow}}

\* Mutant: the row need not exist.
KeysForCve(index, cve) == {key \in DOMAIN index : key[1] = cve}

\* get_plugins_for_cve: the keys of the rows that cover a CVE.
RowsForCve(index, cve) ==
    {key \in DOMAIN index : key[1] = cve /\ index[key] # NoRow}
===============================================================================
