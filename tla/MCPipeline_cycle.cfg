\* The loop and a tool; any request or access may fail; midnight may come at any time.
SPECIFICATION PipeFairSpec
CONSTANTS
    c1 = c1
    p1 = p1
    p2 = p2
    NoRow = NoRow
    NoScore = NoScore
    NoDate = NoDate
    NoEntries = NoEntries
    Cve = {c1}
    Plugin = {p1, p2}
    MinCvss = {70}
    min_cvss = 70
    Score = {40, 98}
    Engine = {loop, tool}
    Loop = loop
    CallsMayFail = TRUE
    PluginBatches <- AllBatches
    Revisions <- Revised
    MaxCalls = 1
    page_size = 1
    FeedLag = 0
    MidnightInCycle = TRUE
    MaxDay = 1
INVARIANTS
    PipeTypeOK
    EveryPairAccounted
    PollComplete
    NothingSlips
PROPERTIES
    EveryUpdateProposed
    ProposalsImplementLedger
