SPECIFICATION AnySpec
CONSTANTS
    docA = docA
    docB = docB
    t1 = t1
    t2 = t2
    t3 = t3
    t4 = t4
    Runners = {r1, r2}
    TxnIds <- Two
    DocKeys <- AB
    Ops <- Updates
    Existing = {docA, docB}
    MaxFlushes = 2
    MaxKills = 0
    None = None
SYMMETRY Symmetry
INVARIANTS
    Atomic
    OneAfterTheOther
    SameOrder
CHECK_DEADLOCK FALSE
