SPECIFICATION AnySpec
CONSTANTS
    r1 = r1
    r2 = r2
    v1 = v1
    v2 = v2
    k1 = k1
    varsKey = varsKey
    routeKey = routeKey
    p1 = p1
    p2 = p2
    g1 = g1
    g2 = g2
    Nil = Nil
    Procs = {p1, p2}
    Threads = {g1, g2}
    Pids = {1, 2}
    PidSize = 4
    CounterSize = 8
    PerSecond = 2
    MaxSecond = 4
    Reuse = FALSE
    Requests = {r1, r2}
    Keys = {varsKey, routeKey, k1}
    Values = {v1, v2}
    Ages = {}
    MaxTime = 0
    Vars = varsKey
    Route = routeKey
SYMMETRY Symmetry
INVARIANTS
    ValuesKept
    StructsKept
    Unique
    Routed
    NoLeak
CHECK_DEADLOCK FALSE
