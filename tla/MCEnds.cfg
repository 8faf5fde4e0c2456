SPECIFICATION AnySpec
CONSTANTS
    None = None
    g1 = g1
    g2 = g2
    g3 = g3
    ping = ping
    d1 = d1
    d2 = d2
    base = base
    ann = ann
    bob = bob
PROPERTY CallsReturn
CHECK_DEADLOCK FALSE
