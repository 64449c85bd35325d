\* The loop alone; a cycle may fail.
SPECIFICATION PipeSpec
CONSTANTS
    c1 = c1
    p1 = p1
    p2 = p2
    NoRow = NoRow
    NoScore = NoScore
    NoDate = NoDate
    NoEntries = NoEntries
    Cve = {c1}
    Plugin = {p1, p2}
    MinCvss = {70}
    min_cvss = 70
    Score = {98}
    Engine = {loop}
    Loop = loop
    CallsMayFail = TRUE
    PluginBatches <- AllBatches
    Revisions <- Fixed
    MaxCalls = 0
    page_size = 1
    FeedLag = 0
    MidnightInCycle = FALSE
    MaxDay = 1
INVARIANTS
    NothingDropped
