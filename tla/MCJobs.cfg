SPECIFICATION AnySpec
CONSTANTS
    Jobs = {j1, j2}
    u1 = u1
    u2 = u2
    empty = empty
    Urls <- MCUrls
    ValidUrls <- MCValidUrls
    Canonical <- MCAlias
    Phones = {ph1}
    Blank = Blank
    None = None
    Span = 2
    MaxClock = 1
    MaxWords = 1
    Faults <- FaultKinds
PROPERTIES
    JobsAreDone
    PaidOnceWhileUp
    OutageServesNobody
