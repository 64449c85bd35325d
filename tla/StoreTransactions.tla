--------------------------- MODULE StoreTransactions ---------------------------
(***************************************************************************)
(* The methods of StateStore (state.py) one SQL statement at a time, by    *)
(* several processes over one database file.  The threads of a process     *)
(* take turns at its one connection (_lock), so a process is a connection  *)
(* here, and the statements of two connections interleave.                 *)
(*                                                                         *)
(* The module follows one table and one kind of method: upsert_kev and     *)
(* upsert_plugins SELECT the key of each row in turn, and INSERT the row   *)
(* when it is not there; upsert_plugins UPDATEs it when it is.  The other  *)
(* methods are one statement each and touch no row of the table, but they  *)
(* read or write the same database, and commit.                            *)
(*                                                                         *)
(* Of sqlite3: the first INSERT or UPDATE begins a transaction and takes   *)
(* the database's write lock; one that finds it taken raises after a       *)
(* timeout; a transaction that has read stays in the way of every other    *)
(* connection's COMMIT; no statement that raises ends its transaction.     *)
(***************************************************************************)
EXTENDS Integers

CONSTANTS
    Conn,
    Row,             \* the primary keys of the table
    NoConn,
    Refreshes,       \* TRUE: upsert_plugins; FALSE: upsert_kev
    CallsMayFail     \* any statement may raise, and a process may be killed

ASSUME ConnAssumption == NoConn \notin Conn

ASSUME KindAssumption == Refreshes \in BOOLEAN /\ CallsMayFail \in BOOLEAN

VARIABLES
    table,       \* the committed rows
    writer,      \* the connection that has the write lock
    pending,     \* the rows of the writer's open transaction
    begun,       \* the connections that are in a transaction
    reading,     \* those of them whose transaction has read
    call,        \* what each connection is doing
    handed,      \* history: how often a row was returned as new
    orphan,      \* history: rows whose call raised after their INSERT
    raised       \* history: the connections whose last call raised

database == <<table, writer, pending, begun, reading>>
history == <<handed, orphan, raised>>
vars == <<database, call, history>>

\* The locals of a method: the rows it has still to look at, the one whose
\* SELECT has found a row or none, and new_pairs or new_cve_ids.
Call ==
    [pc : {"idle", "select", "insert", "update"}, todo : SUBSET Row,
     row : SUBSET Row, new : SUBSET Row]

Idle == [pc |-> "idle", todo |-> {}, row |-> {}, new |-> {}]

At(c, label) == call[c].pc = label

TypeOK ==
    /\ table \subseteq Row
    /\ writer \in Conn \cup {NoConn}
    /\ pending \subseteq Row \ table
    /\ reading \subseteq begun /\ begun \subseteq Conn
    /\ call \in [Conn -> Call]
    /\ handed \in [Row -> Nat]
    /\ orphan \subseteq Row
    /\ raised \subseteq Conn
    /\ writer = NoConn => pending = {}
    /\ \A c \in Conn : call[c].new \subseteq (IF writer = c THEN pending ELSE {})

Init ==
    /\ table = {}
    /\ writer = NoConn
    /\ pending = {}
    /\ begun = {} /\ reading = {}
    /\ call = [c \in Conn |-> Idle]
    /\ handed = [r \in Row |-> 0]
    /\ orphan = {}
    /\ raised = {}

\* What a statement of the connection finds in the table.
Sees(c) == table \cup (IF writer = c THEN pending ELSE {})

MayWrite(c) == writer \in {c, NoConn}

TakeLock(c) ==
    /\ writer' = c
    /\ begun' = begun \cup {c} /\ reading' = reading \cup {c}

\* The method raises: _cursor closes the cursor, and there is no rollback.
Raise(c) ==
    /\ call' = [call EXCEPT ![c] = Idle]
    /\ orphan' = orphan \cup call[c].new
    /\ raised' = raised \cup {c}
    /\ UNCHANGED handed

-----------------------------------------------------------------------------
\* upsert_kev or upsert_plugins.
Begin(c, rows) ==
    /\ At(c, "idle")
    /\ call' = [call EXCEPT ![c] = [Idle EXCEPT !.pc = "select", !.todo = rows]]
    /\ UNCHANGED <<database, history>>

\* get_cursor, is_kev, count_launches_since and the other queries.
BeginQuery(c) ==
    /\ At(c, "idle")
    /\ call' = [call EXCEPT ![c] = [Idle EXCEPT !.pc = "select"]]
    /\ reading' = reading \cup ({c} \cap begun)
    /\ UNCHANGED <<table, writer, pending, begun, history>>

\* set_cursor, record_audit, save_scan_plan, mark_scan_plan_consumed.
BeginWrite(c) ==
    /\ At(c, "idle")
    /\ call' = [call EXCEPT ![c] = [Idle EXCEPT !.pc = "update"]]
    /\ UNCHANGED <<database, history>>

Select(c) ==
    /\ At(c, "select")
    /\ \E r \in call[c].todo :
        call' = [call EXCEPT
            ![c].pc = IF r \notin Sees(c) THEN "insert"
                      ELSE IF Refreshes THEN "update" ELSE "select",
            ![c].row = {r},
            ![c].todo = @ \ {r}]
    /\ reading' = reading \cup ({c} \cap begun)
    /\ UNCHANGED <<table, writer, pending, begun, history>>

\* Mutant: the list of new rows is started anew for each plugin.
LastRow(c) == call[c].row

\* new_pairs.append
WithRow(c) == call[c].new \cup call[c].row

\* The row may have been committed by another connection since the SELECT:
\* not when this connection has had the write lock since before it.
Insert(c) ==
    /\ At(c, "insert")
    /\ MayWrite(c)
    /\ call[c].row \cap Sees(c) = {}
    /\ pending' = pending \cup call[c].row
    /\ call' = [call EXCEPT ![c].pc = "select", ![c].new = WithRow(c)]
    /\ TakeLock(c)
    /\ UNCHANGED <<table, history>>

\* Mutant: INSERT OR IGNORE.
IgnoreDuplicate(c) ==
    /\ At(c, "insert")
    /\ MayWrite(c)
    /\ ~ call[c].row \cap Sees(c) = {}
    /\ call' = [call EXCEPT ![c].pc = "select", ![c].new = WithRow(c)]
    /\ TakeLock(c)
    /\ UNCHANGED <<table, pending, history>>

\* IntegrityError: the write lock is taken all the same.
DuplicateKey(c) ==
    /\ At(c, "insert")
    /\ MayWrite(c)
    /\ ~ call[c].row \cap Sees(c) = {}
    /\ Raise(c)
    /\ TakeLock(c)
    /\ UNCHANGED <<table, pending>>

\* What the statement changes is not in the model.
Update(c) ==
    /\ At(c, "update")
    /\ MayWrite(c)
    /\ call' = [call EXCEPT ![c].pc = "select"]
    /\ TakeLock(c)
    /\ UNCHANGED <<table, pending, history>>

\* "database is locked": the transaction is begun, without the lock.
WriteRefused(c) ==
    /\ call[c].pc \in {"insert", "update"}
    /\ ~ MayWrite(c)
    /\ Raise(c)
    /\ begun' = begun \cup {c}
    /\ UNCHANGED <<table, writer, pending, reading>>

\* Every row has been looked at.
AtCommit(c) == At(c, "select") /\ call[c].todo = {}

MayCommit(c) == writer = c => reading \subseteq {c}

\* Mutant: the rows stay in the transaction.
CloseKeepingRows(c) ==
    /\ writer' = IF writer = c THEN NoConn ELSE writer
    /\ pending' = pending
    /\ begun' = begun \ {c} /\ reading' = reading \ {c}

\* The transaction of the connection, if there is one, ends.
Close(c) ==
    /\ writer' = IF writer = c THEN NoConn ELSE writer
    /\ pending' = IF writer = c THEN {} ELSE pending
    /\ begun' = begun \ {c} /\ reading' = reading \ {c}

\* Mutant: the method returns without the commit.
NotDurable(c) == table' = table

\* What a call that raised has left in the transaction goes with it.
Durable(c) == table' = Sees(c)

\* Mutant: only a call that has added rows commits.
CommitIfNew(c) ==
    /\ AtCommit(c) /\ MayCommit(c)
    /\ IF call[c].new # {} THEN Durable(c) /\ Close(c) ELSE UNCHANGED database
    /\ call' = [call EXCEPT ![c] = Idle]
    /\ handed' = [r \in Row |-> IF r \in call[c].new THEN handed[r] + 1 ELSE handed[r]]
    /\ raised' = raised \ {c}
    /\ UNCHANGED orphan

\* COMMIT, and the method returns.
Commit(c) ==
    /\ AtCommit(c) /\ MayCommit(c)
    /\ Durable(c) /\ Close(c)
    /\ call' = [call EXCEPT ![c] = Idle]
    /\ handed' = [r \in Row |-> IF r \in call[c].new THEN handed[r] + 1 ELSE handed[r]]
    /\ raised' = raised \ {c}
    /\ UNCHANGED orphan

CommitRefused(c) ==
    /\ AtCommit(c) /\ ~ MayCommit(c)
    /\ Raise(c)
    /\ UNCHANGED database

-----------------------------------------------------------------------------
\* Any other exception of a statement.
Fail(c) ==
    /\ CallsMayFail
    /\ ~ At(c, "idle")
    /\ Raise(c)
    /\ UNCHANGED database

\* The process is killed, and the next to open the file rolls its transaction
\* back; or the kill comes after the COMMIT.
Kill(c) ==
    /\ CallsMayFail
    /\ Close(c)
    /\ \/ /\ table' = table
          /\ orphan' = IF writer = c THEN orphan \ pending ELSE orphan
       \/ /\ AtCommit(c) /\ MayCommit(c)
          /\ Durable(c)
          /\ orphan' = orphan \cup call[c].new
    /\ call' = [call EXCEPT ![c] = Idle]
    /\ raised' = raised \ {c}
    /\ UNCHANGED handed

Statement(c) ==
    \/ Select(c)
    \/ Insert(c) \/ DuplicateKey(c) \/ Update(c) \/ WriteRefused(c)
    \/ Commit(c) \/ CommitRefused(c)

Next ==
    \E c \in Conn :
        \/ \E rows \in SUBSET Row : Begin(c, rows)
        \/ BeginQuery(c) \/ BeginWrite(c)
        \/ Statement(c) \/ Fail(c) \/ Kill(c)

Spec == Init /\ [][Next]_vars

-----------------------------------------------------------------------------
Handed == {r \in Row : handed[r] > 0}

(* No row is returned as new twice, by whatever process, although the      *)
(* SELECT that finds it missing and the INSERT are two statements, and     *)
(* although calls that raise leave rows behind for later commits: what     *)
(* CorrelationEngine needs to fire a pair once.                            *)
HandedOnce == \A r \in Row : handed[r] <= 1

(* Every committed row was returned as new, or its call raised or died     *)
(* before it returned: those, and no others, are the rows no correlation   *)
(* will ever look at.                                                      *)
RowsOwned == table \subseteq Handed \cup orphan

(* A connection at rest keeps the write lock, or stands in the way of      *)
(* other connections' commits, only when its last call raised: then it     *)
(* does until its next call, be it a mere read, ends.                      *)
OpenOnlyAfterRaise ==
    \A c \in Conn : At(c, "idle") /\ (writer = c \/ c \in begun) => c \in raised

(* The methods of all processes together are upserts in one step: at its   *)
(* commit a call is handed exactly the rows that it adds.  This is how the *)
(* other modules take the store.                                           *)
Store == INSTANCE AtomicStore WITH handed <- Handed

ImplementsAtomicStore == Store!Spec
===============================================================================
