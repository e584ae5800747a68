SPECIFICATION FairSpec
CONSTANTS
    p1 = p1
    p2 = p2
    Procs = {p1}
    Walkers = {p1}
    Paths <- Nested
    Bytes = {}
    NumStd = 0
    NumFds = 1
    MaxFiles = 5
    MaxSize = 0
    Recreate = FALSE
PROPERTIES StreamReturnsEach ReaddirEnds
