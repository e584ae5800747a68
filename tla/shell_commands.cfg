SPECIFICATION Spec
CONSTANTS
    Rom <- MCRom
    Apps <- MCApps
    Drivers <- MCDrivers
    Extends <- MCExtends
    Space = " "
    Nul = "nul"
    PathOf <- MCPathOf
    ExitWords <- MCExitWords
    Lines <- MCLines
    Creatable <- MCCreatable
    Interactive = {"simple_game"}
    ArgvSize = 3
    Descriptors = 4
    MaxShells = 2
INVARIANTS ListedIsReachable RunsWhatWasMeant ArgumentsAreWords
PROPERTIES NotFoundIsTrue CommandEnds
CHECK_DEADLOCK FALSE
