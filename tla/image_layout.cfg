SPECIFICATION Spec
CONSTANTS
    Main = main
    f = f
    d = d
    b = b
    Externals = {puts, exit, open}
    Known = {puts, exit}
    Internals <- MCInternals
    Sections <- MCSections
    Values <- MCValues
    CodeSize = 20
    Pointers <- MCPointers
    DataWords = 3
    Base = 160
    Nothing = Nothing
    MaxRelocs = 3
INVARIANT ReferencesResolve
PROPERTIES LoadsOrSaysWhy
CHECK_DEADLOCK FALSE
