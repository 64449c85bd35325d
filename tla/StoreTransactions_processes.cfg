\* Three processes; any statement may raise, and any process may be killed.
SPECIFICATION Spec
CONSTANTS
    NoConn = NoConn
    Conn = {a, b, c}
    Row = {r1, r2}
    Refreshes = TRUE
    CallsMayFail = TRUE
INVARIANTS
    TypeOK
    HandedOnce
    RowsOwned
    OpenOnlyAfterRaise
PROPERTIES
    ImplementsAtomicStore
