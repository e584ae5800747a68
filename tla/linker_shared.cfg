SPECIFICATION Spec
CONSTANTS
    NoArea = NoArea
    Recycled = FALSE
    Procs = {p1, p2}
    Areas = {a1, a2, a3, a4}
    Buffers = {1, 2, 3}
    MaxDepth = 1
    MaxModules = 4
SYMMETRY Symmetry
PROPERTY TableOutlivesProgram
CHECK_DEADLOCK FALSE
