SPECIFICATION Spec
CONSTANTS
    p1 = p1
    p2 = p2
    Procs = {p1, p2}
    Walkers = {}
    Paths <- OneFile
    Bytes = {1, 2}
    NumStd = 1
    NumFds = 2
    MaxFiles = 3
    MaxSize = 2
    Recreate = TRUE
SYMMETRY Symmetry
INVARIANTS SlotsMatchBits ReadsArePrefixes
PROPERTIES NamesAreStable ImplementsDescriptors
