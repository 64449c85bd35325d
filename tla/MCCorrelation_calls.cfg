\* Two overlapping calls, either of which may be cut short at any access.
SPECIFICATION FairSpec
CONSTANTS
    c1 = c1
    c2 = c2
    p1 = p1
    p2 = p2
    NoRow = NoRow
    NoScore = NoScore
    Cve = {c1, c2}
    Plugin = {p1, p2}
    MinCvss = {70}
    Score = {98}
    Engine = {e1, e2}
    CallsMayFail = TRUE
    PluginBatches <- TwoPluginBatches
INVARIANTS
    TypeOK
    NothingMissed
    OneMatchPerCall
    AtMostOncePerDirection
PROPERTIES
    EventuallyAnnounced
    ImplementsLedger
