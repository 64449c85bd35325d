\* One call after another; the feed revises the score of a plugin.
SPECIFICATION Spec
CONSTANTS
    c1 = c1
    c2 = c2
    p1 = p1
    p2 = p2
    NoRow = NoRow
    NoScore = NoScore
    Cve = {c1, c2}
    Plugin = {p1, p2}
    MinCvss = {70}
    Score = {40, 98}
    Engine = {e1}
    CallsMayFail = FALSE
    PluginBatches <- RevisedPluginBatches
INVARIANTS
    UpdatedPluginReported
