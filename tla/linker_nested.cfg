SPECIFICATION Spec
CONSTANTS
    NoArea = NoArea
    Recycled = TRUE
    Procs = {p1}
    Areas = {a1, a2, a3, a4, a5, a6}
    Buffers = {1, 2, 3, 4}
    MaxDepth = 4
    MaxModules = 6
SYMMETRY Symmetry
INVARIANT RunningSeesOwnLot
PROPERTY ReturnUnloadsOwn
CHECK_DEADLOCK FALSE
