\* A loop and an MCP server in one process, two backends and a tag that is not
\* on the allow-list; any call may fail anywhere.
SPECIFICATION Spec
CONSTANTS
    m1 = m1
    tvm = tvm
    web = web
    NoPlan = NoPlan
    Actor = {loop, mcp}
    Mcp = {mcp}
    Match = {m1}
    Plan = {pl1, pl2}
    Backend = {tvm, sc}
    primary_backend = tvm
    Tag = {web, db}
    TagsOfFamily <- AllTagsMapping
    auto_scan_allow_tags = {web}
    max_launches_per_window = 1
    window_hours = 0
    CallsMayFail = TRUE
    MaxTime = 1
    MaxScans = 2
SYMMETRY PlanSymmetry
VIEW WithoutDecisions
INVARIANTS
    TypeOK
    LaunchesBounded
    ScanStormBounded
    EveryScanAccounted
    OncePerActor
    LaunchedRowsTrue
    UnattendedScansAdmitted
PROPERTY
    ImplementsRegister
