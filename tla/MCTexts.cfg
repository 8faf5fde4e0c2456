SPECIFICATION AnySpec
CONSTANTS
    Max = 3
    MaxRunes = 10
    None = None
    Ids = {d1, d2, d3}
    Urls = {u1}
    Paths = {a1}
    Phones = {ph1, ph2}
    DbErrors = TRUE
SYMMETRY Symmetric
INVARIANTS
    InRange
    PagesAreChunks
    SpokenInOrder
    LinksStayGood
    FeedIsExact
CHECK_DEADLOCK FALSE
