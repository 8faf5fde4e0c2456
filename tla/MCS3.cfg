SPECIFICATION AnySpec
CONSTANTS
    c1 = c1
    c2 = c2
    b1 = b1
    b2 = b2
    k1 = k1
    d1 = d1
    d2 = d2
    None = None
    Absent = Absent
    Clients = {c1, c2}
    Buckets = {b1}
    Names = {k1}
    Datas = {d1}
    Valid = {b1}
    Located = TRUE
    Conflicts = FALSE
    Headers = {{}}
    Digests = {"none"}
    Wrapped = FALSE
    Tries = 2
    MaxFaults = 2
    MaxCalls = 3
INVARIANTS
    Uploaded
    StoreHolds
    ListedOnce
CHECK_DEADLOCK FALSE
