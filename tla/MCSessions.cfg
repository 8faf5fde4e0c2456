SPECIFICATION AnySpec
CONSTANTS
    Sessions = {s1, s2, s3}
    First = s1
    Sockets = {k1, k2, k3}
    Goroutines = {g1, g2}
    Creds <- TwoUsers
    DialCred <- Dial
    Modes = {"Eventual", "Monotonic", "Strong"}
    Copies = {"New", "Copy", "Clone"}
    Logouts = {"one", "all"}
    MaxSteps = 6
    None = None
    Hosts = {ha, hb, hc}
    userSeeds = {ha}
    Names <- Stranger
    Clients = {v1, v2}
    SlaveOk = {v2}
    Tagged = {ha, hb}
    Timeouts = TRUE
    Limited = TRUE
    direct = TRUE
    failFast = TRUE
    Incarnations = 4
    MaxChanges = 1
    NoServer = NoServer
    s1 = s1
    s2 = s2
    s3 = s3
    g1 = g1
    g2 = g2
    db = db
    ann = ann
    bob = bob
    ha = ha
    hb = hb
    hc = hc
    v1 = v1
    v2 = v2
SYMMETRY Symmetry
INVARIANTS
    SocketsCounted
    LoggedInAsSaid
    ClusterAgrees
    SyncFindsAll
PROPERTY MasterKept
CHECK_DEADLOCK FALSE
