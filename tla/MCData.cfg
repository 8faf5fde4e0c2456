SPECIFICATION AnySpec
CONSTANTS
    docA = docA
    docB = docB
    g1 = g1
    g2 = g2
    k1 = k1
    k2 = k2
    Elems = {e1, e2}
    None = None
    First = 2
    Doubles = 8
    MaxPushes = 7
    ChunkSize = 3
    Megabyte = 6
    Writes = {1, 2, 3, 5, 8}
    MaxLength = 13
    Faults = {"chunk", "abort", "file", "remove", "marshal"}
    NoFile = NoFile
    Goroutines = {g1, g2}
    SocketOf <- Shared
    Ids = {docA, docB}
    Ops <- AllOps
    Safe = {TRUE, FALSE}
    WriteFaults = {"died", "failed", "timeout"}
    Nil = Nil
    MaxCalls = 3
INVARIANTS
    Iterated
    ResultsTrue
    FilesAreWhole
PROPERTY IsFifo
CHECK_DEADLOCK FALSE
