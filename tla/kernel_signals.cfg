SPECIFICATION Spec
CONSTANTS
    r = r
    a = a
    b = b
    c = c
    Procs = {r, a, b}
    Root = r
    Sems = {1, 2}
    InitValue <- SignalAndCounter
    Spawners = {r}
    Returning = {a, b}
    Signallers = {r, a}
    MaxSignals = 2
    Disciplined = FALSE
PROPERTY ImplementsSemaphores
CHECK_DEADLOCK FALSE
