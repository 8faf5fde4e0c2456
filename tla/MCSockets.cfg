SPECIFICATION AnySpec
CONSTANTS
    Calls = {c1, c2, q1}
    Cursors = {q1}
    MaxDocs = 2
    IdSpan = 6
    Timeouts = TRUE
    None = None
    Users = {u1, u2}
    Pinger = pinger
    Sockets = {k1, k2, k3, k4}
    PoolLimit = 2
    MaxRefs = 2
    NoSocket = NoSocket
    Actors = {g1, g2, g3}
    Creds <- AllCreds
    Mongos = FALSE
    Does = {"login", "query", "logout", "logoutAll"}
    MaxCalls = 6
    Kills = TRUE
    Nobody = Nobody
    u1 = u1
    u2 = u2
    pinger = pinger
    k1 = k1
    k2 = k2
    k3 = k3
    k4 = k4
    g1 = g1
    g2 = g2
    g3 = g3
    db = db
    ann = ann
    bob = bob
SYMMETRY Symmetry
INVARIANTS
    RepliesAreOwn
    PoolIsSound
    NoncesAgree
    LoginsAgree
PROPERTY KeepsPromise
CHECK_DEADLOCK FALSE
