\* One loop, and a tag that is not on the allow-list; no call fails.
SPECIFICATION Spec
CONSTANTS
    m1 = m1
    tvm = tvm
    web = web
    NoPlan = NoPlan
    Actor = {loop}
    Mcp = {}
    Match = {m1}
    Plan = {pl1, pl2}
    Backend = {tvm}
    primary_backend = tvm
    Tag = {web, db}
    TagsOfFamily <- AllTagsMapping
    auto_scan_allow_tags = {web}
    max_launches_per_window = 2
    window_hours = 1
    CallsMayFail = FALSE
    MaxTime = 0
    MaxScans = 2
SYMMETRY PlanSymmetry
INVARIANTS
    UnattendedScansOnAllowList
