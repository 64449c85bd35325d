\* A loop and an MCP server in one process; no call fails.
SPECIFICATION Spec
CONSTANTS
    m1 = m1
    tvm = tvm
    web = web
    NoPlan = NoPlan
    Actor = {loop, mcp}
    Mcp = {mcp}
    Match = {m1}
    Plan = {pl1, pl2}
    Backend = {tvm}
    primary_backend = tvm
    Tag = {web}
    TagsOfFamily <- AllTagsMapping
    auto_scan_allow_tags = {web}
    max_launches_per_window = 1
    window_hours = 1
    CallsMayFail = FALSE
    MaxTime = 2
    MaxScans = 3
SYMMETRY PlanSymmetry
INVARIANTS
    HardCap
