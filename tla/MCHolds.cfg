SPECIFICATION Spec
CONSTANTS
    j1 = j1
    k1 = k1
    r1 = r1
    h1 = h1
    h2 = h2
    Job = {j1}
    Key = {k1}
    Run = {r1}
    Detection <- MarkJob
    Observed = {}
    Handler = {h1, h2}
    Requests = {"awake", "mark", "pause", "display"}
    MaxFire = 1
SYMMETRY Handlers
INVARIANTS
    NoOrphanedAssertion
    LatchKeepsWindowsShut
PROPERTY
    WindowForNewFire
