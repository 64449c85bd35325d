------------------------------- MODULE StoreProofs -------------------------------
(***************************************************************************)
(* Theorems about StoreTransactions, for any number of connections and     *)
(* rows, both kinds of upsert, with statements that raise and processes    *)
(* that are killed at any point.                                           *)
(***************************************************************************)
EXTENDS StoreTransactions, TLAPS

USE DEF At

(* The rows of the open transaction are those its call has inserted and    *)
(* those that calls of the same connection left when they raised; a row    *)
(* that was handed is committed and no orphan.                             *)
OwnerInv ==
    /\ Handed \subseteq table
    /\ orphan \subseteq table \cup pending
    /\ orphan \cap Handed = {}
    /\ \A r \in pending : r \notin orphan => writer \in Conn /\ r \in call[writer].new
    /\ \A c \in Conn : call[c].new \cap orphan = {}
    /\ \A c \in Conn : At(c, "idle") => call[c].new = {}

IInv == TypeOK /\ OwnerInv /\ HandedOnce /\ RowsOwned /\ OpenOnlyAfterRaise

Lookup(c) == BeginQuery(c) \/ BeginWrite(c) \/ Select(c) \/ Update(c)

Refused(c) == DuplicateKey(c) \/ WriteRefused(c) \/ CommitRefused(c) \/ Fail(c)

LEMMA NextSplit ==
    ASSUME Next
    PROVE  \E c \in Conn :
               \/ (\E rows \in SUBSET Row : Begin(c, rows)) \/ Lookup(c)
               \/ Insert(c) \/ Refused(c) \/ Commit(c) \/ Kill(c)
  BY DEF Next, Statement, Lookup, Refused

-----------------------------------------------------------------------------
LEMMA InitIInv == Init => IInv
  BY ConnAssumption
  DEF Init, IInv, TypeOK, OwnerInv, HandedOnce, RowsOwned, OpenOnlyAfterRaise,
      Handed, Call, Idle

LEMMA BeginKeeps ==
    ASSUME IInv, NEW c \in Conn, NEW rows \in SUBSET Row, Begin(c, rows)
    PROVE  IInv' /\ UNCHANGED <<table, Handed, orphan>>
  <1> USE DEF Begin, IInv, TypeOK, database, history, Handed
  <1>1. TypeOK'
    BY DEF Call, Idle
  <1>2. OwnerInv'
    <2>1. \A d \in Conn : call'[d].new = call[d].new
      BY DEF OwnerInv, Idle, Call
    <2>2. \A d \in Conn : call'[d].pc = "idle" => call[d].pc = "idle"
      BY DEF Idle, Call
    <2>3. QED
      BY <2>1, <2>2 DEF OwnerInv
  <1>3. HandedOnce' /\ RowsOwned'
    BY DEF HandedOnce, RowsOwned
  <1>4. OpenOnlyAfterRaise'
    BY DEF OpenOnlyAfterRaise, Idle, Call
  <1>5. QED
    BY <1>1, <1>2, <1>3, <1>4

LEMMA LookupKeeps ==
    ASSUME IInv, NEW c \in Conn, Lookup(c)
    PROVE  IInv' /\ UNCHANGED <<table, Handed, orphan>>
  <1> USE ConnAssumption DEF IInv, TypeOK, database, history, Handed
  <1>1. TypeOK'
    <2>1. CASE BeginQuery(c) \/ BeginWrite(c)
      BY <2>1 DEF BeginQuery, BeginWrite, Call, Idle
    <2>2. CASE Select(c)
      BY <2>2 DEF Select, Call
    <2>3. CASE Update(c)
      BY <2>3 DEF Update, Call, TakeLock, MayWrite
    <2>4. QED
      BY <2>1, <2>2, <2>3 DEF Lookup
  <1>2. /\ table' = table /\ pending' = pending /\ handed' = handed
        /\ orphan' = orphan /\ raised' = raised
        /\ writer' = writer \/ (writer = NoConn /\ writer' = c)
        /\ begun' \subseteq begun \cup {c}
    BY DEF Lookup, BeginQuery, BeginWrite, Select, Update, TakeLock, MayWrite
  <1>3. \A d \in Conn : call'[d].new = call[d].new /\ (d # c => call'[d] = call[d])
    <2>1. CASE BeginQuery(c) \/ BeginWrite(c)
      <3>1. call[c].new = {} /\ call'[c].new = {}
        BY <2>1 DEF BeginQuery, BeginWrite, OwnerInv, Idle
      <3>2. \A d \in Conn : d # c => call'[d] = call[d]
        BY <2>1 DEF BeginQuery, BeginWrite
      <3>3. QED
        BY <3>1, <3>2
    <2>2. CASE Select(c)
      BY <2>2 DEF Select, Call
    <2>3. CASE Update(c)
      BY <2>3 DEF Update, Call
    <2>4. QED
      BY <2>1, <2>2, <2>3 DEF Lookup
  <1>4. call'[c].pc # "idle"
    <2>1. CASE BeginQuery(c) \/ BeginWrite(c)
      BY <2>1 DEF BeginQuery, BeginWrite, Idle
    <2>2. CASE Select(c)
      BY <2>2 DEF Select, Call
    <2>3. CASE Update(c)
      BY <2>3 DEF Update, Call
    <2>4. QED
      BY <2>1, <2>2, <2>3 DEF Lookup
  <1>5. OwnerInv' /\ HandedOnce' /\ RowsOwned'
    BY <1>2, <1>3, <1>4 DEF OwnerInv, HandedOnce, RowsOwned
  <1>6. OpenOnlyAfterRaise'
    BY <1>2, <1>3, <1>4 DEF OpenOnlyAfterRaise
  <1>7. QED
    BY <1>1, <1>2, <1>5, <1>6

LEMMA InsertKeeps ==
    ASSUME IInv, NEW c \in Conn, Insert(c)
    PROVE  IInv' /\ UNCHANGED <<table, Handed, orphan>>
  <1> USE ConnAssumption DEF IInv, TypeOK, history, Handed
  <1>1. /\ pending' = pending \cup call[c].row
        /\ call[c].row \cap (table \cup pending) = {} /\ call[c].row \subseteq Row
        /\ call'[c].new = call[c].new \cup call[c].row
        /\ \A d \in Conn : d # c => call'[d] = call[d]
        /\ writer \in {c, NoConn} /\ writer' = c
        /\ table' = table /\ handed' = handed /\ orphan' = orphan /\ raised' = raised
        /\ call'[c].pc = "select"
    BY DEF Insert, MayWrite, Sees, WithRow, TakeLock, Call
  <1>2. TypeOK'
    <2>1. call' \in [Conn -> Call]
      <3>1. call[c] \in Call /\ WithRow(c) \in SUBSET Row
        BY DEF WithRow, Call
      <3>2. [call[c] EXCEPT !.pc = "select", !.new = WithRow(c)] \in Call
        BY <3>1 DEF Call
      <3>3. call' = [call EXCEPT ![c] = [call[c] EXCEPT !.pc = "select", !.new = WithRow(c)]]
        BY DEF Insert
      <3>4. QED
        BY <3>2, <3>3
    <2>2. \A d \in Conn : d # writer => call[d].new = {}
      BY DEF Call
    <2>3. \A d \in Conn : call'[d].new \subseteq (IF writer' = d THEN pending' ELSE {})
      BY <1>1, <2>2
    <2>4. begun' = begun \cup {c} /\ reading' = reading \cup {c}
      BY DEF Insert, TakeLock
    <2>5. QED
      BY <1>1, <2>1, <2>3, <2>4
  <1>3. OwnerInv'
    <2>1. call[c].row \cap orphan = {}
      BY <1>1 DEF OwnerInv
    <2>2. QED
      BY <1>1, <2>1 DEF OwnerInv
  <1>4. HandedOnce' /\ RowsOwned'
    BY <1>1 DEF HandedOnce, RowsOwned
  <1>5. OpenOnlyAfterRaise'
    BY DEF OpenOnlyAfterRaise, Insert, TakeLock, MayWrite, Call
  <1>6. QED
    BY <1>1, <1>2, <1>3, <1>4, <1>5

LEMMA RefusedKeeps ==
    ASSUME IInv, NEW c \in Conn, Refused(c)
    PROVE  IInv' /\ Store!Orphan
  <1> USE ConnAssumption DEF IInv, TypeOK, database, Handed
  <1>1. /\ table' = table /\ pending' = pending /\ handed' = handed
        /\ raised' = raised \cup {c} /\ orphan' = orphan \cup call[c].new
        /\ writer' = writer \/ (writer = NoConn /\ writer' = c)
        /\ call' = [call EXCEPT ![c] = Idle]
    BY DEF Refused, DuplicateKey, WriteRefused, CommitRefused, Fail, Raise, TakeLock, MayWrite
  <1>2. \A d \in Conn : d # writer => call[d].new = {}
    BY DEF Call
  <1>3. TypeOK'
    <2>1. /\ reading' \subseteq begun' /\ begun' \subseteq Conn
      BY DEF Refused, DuplicateKey, WriteRefused, CommitRefused, Fail, TakeLock
    <2>2. call' \in [Conn -> Call]
      BY <1>1 DEF Call, Idle
    <2>3. \A d \in Conn : call'[d].new \subseteq (IF writer' = d THEN pending' ELSE {})
      BY <1>1, <1>2 DEF Idle
    <2>4. orphan' \subseteq Row
      BY <1>1 DEF Call
    <2>5. QED
      BY <1>1, <2>1, <2>2, <2>3, <2>4
  <1>4. call[c].new \subseteq pending /\ pending \cap Handed = {}
    BY DEF OwnerInv
  <1>5. OwnerInv'
    BY <1>1, <1>2, <1>4 DEF OwnerInv, Idle
  <1>6. HandedOnce' /\ RowsOwned'
    BY <1>1 DEF HandedOnce, RowsOwned
  <1>7. OpenOnlyAfterRaise'
    BY <1>1 DEF OpenOnlyAfterRaise, Refused, DuplicateKey, WriteRefused, CommitRefused, Fail,
                TakeLock, MayWrite, Idle
  <1>8. Store!Orphan
    BY <1>1, <1>4, <1>5 DEF Store!Orphan, OwnerInv
  <1>9. QED
    BY <1>3, <1>5, <1>6, <1>7, <1>8

LEMMA CommitKeeps ==
    ASSUME IInv, NEW c \in Conn, Commit(c)
    PROVE  IInv' /\ Store!Next
  <1> DEFINE late == IF writer = c THEN pending \ call[c].new ELSE {}
  <1> USE ConnAssumption DEF IInv, TypeOK
  <1>1. /\ table' = Sees(c)
        /\ writer' = (IF writer = c THEN NoConn ELSE writer)
        /\ pending' = (IF writer = c THEN {} ELSE pending)
        /\ begun' = begun \ {c} /\ reading' = reading \ {c}
        /\ call' = [call EXCEPT ![c] = Idle]
        /\ orphan' = orphan /\ raised' = raised \ {c}
        /\ \A r \in Row :
               handed'[r] = IF r \in call[c].new THEN handed[r] + 1 ELSE handed[r]
    BY DEF Commit, Durable, Close
  <1>2. call[c].new \subseteq (IF writer = c THEN pending ELSE {})
    OBVIOUS
  <1>3. Handed' = Handed \cup call[c].new
    BY <1>1 DEF Handed
  <1>4. \A r \in call[c].new : handed[r] = 0
    BY <1>2 DEF OwnerInv, Handed
  <1>5. HandedOnce'
    BY <1>1, <1>4 DEF HandedOnce
  <1>6. \A d \in Conn : d # writer => call[d].new = {}
    BY DEF Call
  <1>7. late \subseteq orphan \ table
    BY DEF OwnerInv
  <1>8. table' = table \cup call[c].new \cup late
    BY <1>1, <1>2 DEF Sees
  <1>9. TypeOK'
    <2>1. call' \in [Conn -> Call]
      BY <1>1 DEF Call, Idle
    <2>2. \A d \in Conn : call'[d].new \subseteq (IF writer' = d THEN pending' ELSE {})
      BY <1>1, <1>6 DEF Idle
    <2>3. table' \subseteq Row /\ pending' \subseteq Row \ table'
      BY <1>1 DEF Sees
    <2>4. handed' \in [Row -> Nat]
      BY DEF Commit
    <2>5. QED
      BY <1>1, <2>1, <2>2, <2>3, <2>4
  <1>10. OwnerInv'
    <2>1. Handed' \subseteq table' /\ orphan' \cap Handed' = {}
      BY <1>1, <1>2, <1>3, <1>8 DEF OwnerInv
    <2>2. orphan' \subseteq table' \cup pending'
      BY <1>1 DEF OwnerInv, Sees
    <2>3. \A r \in pending' : r \notin orphan' => writer' \in Conn /\ r \in call'[writer'].new
      BY <1>1 DEF OwnerInv
    <2>4. \A d \in Conn : call'[d].new \cap orphan' = {}
      BY <1>1 DEF OwnerInv, Idle
    <2>5. \A d \in Conn : At(d, "idle")' => call'[d].new = {}
      BY <1>1 DEF OwnerInv, Idle
    <2>6. QED
      BY <2>1, <2>2, <2>3, <2>4, <2>5 DEF OwnerInv
  <1>11. RowsOwned'
    BY <1>1, <1>3, <1>7, <1>8 DEF RowsOwned
  <1>12. OpenOnlyAfterRaise'
    BY <1>1 DEF OpenOnlyAfterRaise, Idle
  <1>13. call[c].new \cap (table \cup late) = {}
    BY <1>2
  <1>14. Store!Upsert(call[c].new, late)
    BY <1>1, <1>3, <1>8, <1>13 DEF Store!Upsert
  <1>15. call[c].new \in SUBSET Row
    BY DEF Call
  <1>16. QED
    BY <1>5, <1>7, <1>9, <1>10, <1>11, <1>12, <1>14, <1>15 DEF Store!Next

LEMMA KillKeeps ==
    ASSUME IInv, NEW c \in Conn, Kill(c)
    PROVE  IInv' /\ Store!Die
  <1> USE ConnAssumption DEF IInv, TypeOK
  <1>1. /\ writer' = (IF writer = c THEN NoConn ELSE writer)
        /\ pending' = (IF writer = c THEN {} ELSE pending)
        /\ begun' = begun \ {c} /\ reading' = reading \ {c}
        /\ call' = [call EXCEPT ![c] = Idle]
        /\ handed' = handed /\ raised' = raised \ {c}
    BY DEF Kill, Close
  <1>2. \/ /\ table' = table
           /\ orphan' = IF writer = c THEN orphan \ pending ELSE orphan
        \/ /\ table' = Sees(c)
           /\ orphan' = orphan \cup call[c].new
    BY DEF Kill, Durable
  <1>3. \A d \in Conn : d # writer => call[d].new = {}
    BY DEF Call
  <1>4. call[c].new \subseteq Row /\ Handed' = Handed
    BY <1>1 DEF Call, Handed
  <1>5. TypeOK'
    <2>1. call' \in [Conn -> Call]
      BY <1>1 DEF Call, Idle
    <2>2. \A d \in Conn : call'[d].new \subseteq (IF writer' = d THEN pending' ELSE {})
      BY <1>1, <1>3 DEF Idle
    <2>3. table' \subseteq Row /\ pending' \subseteq Row \ table' /\ orphan' \subseteq Row
      BY <1>1, <1>2, <1>4 DEF Sees
    <2>4. QED
      BY <1>1, <2>1, <2>2, <2>3
  <1>6. OwnerInv'
    <2>1. Handed' \subseteq table' /\ orphan' \cap Handed' = {}
      BY <1>2, <1>4 DEF OwnerInv, Sees
    <2>2. orphan' \subseteq table' \cup pending'
      BY <1>1, <1>2 DEF OwnerInv, Sees
    <2>3. \A r \in pending' : r \notin orphan' => writer' \in Conn /\ r \in call'[writer'].new
      BY <1>1, <1>2 DEF OwnerInv
    <2>4. \A d \in Conn : call'[d].new \cap orphan' = {}
      BY <1>1, <1>2, <1>3 DEF OwnerInv, Idle
    <2>5. \A d \in Conn : At(d, "idle")' => call'[d].new = {}
      BY <1>1 DEF OwnerInv, Idle
    <2>6. QED
      BY <2>1, <2>2, <2>3, <2>4, <2>5 DEF OwnerInv
  <1>7. HandedOnce' /\ RowsOwned'
    BY <1>1, <1>2, <1>4 DEF HandedOnce, RowsOwned, OwnerInv, Sees
  <1>8. OpenOnlyAfterRaise'
    BY <1>1 DEF OpenOnlyAfterRaise, Idle
  <1>9. Store!Die
    BY <1>2, <1>4, <1>6 DEF Store!Die, OwnerInv, Sees
  <1>10. QED
    BY <1>5, <1>6, <1>7, <1>8, <1>9

LEMMA Step == IInv /\ [Next]_vars => IInv' /\ [Store!Next]_Store!vars
  <1> SUFFICES ASSUME IInv, [Next]_vars
               PROVE  IInv' /\ [Store!Next]_Store!vars
    OBVIOUS
  <1>1. CASE Next
    <2>1. PICK c \in Conn :
              \/ (\E rows \in SUBSET Row : Begin(c, rows)) \/ Lookup(c)
              \/ Insert(c) \/ Refused(c) \/ Commit(c) \/ Kill(c)
      BY <1>1, NextSplit
    <2>2. CASE (\E rows \in SUBSET Row : Begin(c, rows)) \/ Lookup(c) \/ Insert(c)
      BY <2>2, BeginKeeps, LookupKeeps, InsertKeeps DEF Store!vars
    <2>3. CASE Refused(c)
      BY <2>3, RefusedKeeps DEF Store!Next
    <2>4. CASE Commit(c)
      BY <2>4, CommitKeeps
    <2>5. CASE Kill(c)
      BY <2>5, KillKeeps DEF Store!Next
    <2>6. QED
      BY <2>1, <2>2, <2>3, <2>4, <2>5
  <1>2. CASE UNCHANGED vars
    <2>1. UNCHANGED <<table, writer, pending, begun, reading, call, handed, orphan, raised>>
      BY <1>2 DEF vars, database, history
    <2>2. IInv'
      BY <2>1 DEF IInv, TypeOK, OwnerInv, HandedOnce, RowsOwned, OpenOnlyAfterRaise, Handed
    <2>3. UNCHANGED <<table, Handed, orphan>>
      BY <2>1 DEF Handed
    <2>4. QED
      BY <2>2, <2>3 DEF Store!vars
  <1>3. QED
    BY <1>1, <1>2

THEOREM TypeCorrect == Spec => []TypeOK
  <1>1. IInv => TypeOK
    BY DEF IInv
  <1>2. QED
    BY InitIInv, Step, <1>1, PTL DEF Spec

(* However the statements of the processes interleave, and whichever raise *)
(* or die, a row is returned as new at most once.                          *)
THEOREM RowsAreHandedOnce == Spec => []HandedOnce
  <1>1. IInv => HandedOnce
    BY DEF IInv
  <1>2. QED
    BY InitIInv, Step, <1>1, PTL DEF Spec

(* A committed row was returned as new, or its call raised or died.        *)
THEOREM RowsAreOwned == Spec => []RowsOwned
  <1>1. IInv => RowsOwned
    BY DEF IInv
  <1>2. QED
    BY InitIInv, Step, <1>1, PTL DEF Spec

(* Only a call that raised leaves a connection at rest in the way of the   *)
(* others.                                                                 *)
THEOREM RestsClosed == Spec => []OpenOnlyAfterRaise
  <1>1. IInv => OpenOnlyAfterRaise
    BY DEF IInv
  <1>2. QED
    BY InitIInv, Step, <1>1, PTL DEF Spec

(* Statement by statement, the processes' methods are upserts in one step: *)
(* the grain of every other module of the store.                           *)
THEOREM UpsertsAreAtomic == Spec => ImplementsAtomicStore
  <1>1. Init => Store!Init
    BY DEF Init, Store!Init, Handed
  <1>2. QED
    BY InitIInv, Step, <1>1, PTL DEF Spec, ImplementsAtomicStore, Store!Spec
===============================================================================
