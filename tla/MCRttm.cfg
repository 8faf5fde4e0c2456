SPECIFICATION AnySpec
CONSTANTS
    Jobs = {j1, j2, j3}
    u1 = u1
    u2 = u2
    empty = empty
    Urls <- MCUrls
    ValidUrls <- MCValidUrls
    Canonical <- MCCanonical
    ph1 = ph1
    ph2 = ph2
    Phones = {ph1, ph2}
    Blank = Blank
    None = None
    Span = 2
    MaxClock = 2
    MaxWords = 1
    Faults <- FaultKinds
SYMMETRY Symmetric
INVARIANTS
    TypeOK
    Referential
    HandedOutAudioExists
    OwnAudioUnlessSameSecond
    SMSBacked
PROPERTY ImplementsLibrary
