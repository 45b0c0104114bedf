SPECIFICATION Spec
CONSTANTS
    j1 = j1
    k1 = k1
    r1 = r1
    h1 = h1
    h2 = h2
    Job = {j1}
    Key = {k1}
    Run = {r1}
    Detection <- PatternJob
    Observed = {j1}
    Handler = {h1, h2}
    Requests = {"run", "agent", "sleep", "job", "agents", "sync"}
    MaxFire = 2
SYMMETRY Handlers
INVARIANTS
    NoOrphanedAssertion
