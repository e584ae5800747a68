SPECIFICATION FairSpec
CONSTANTS
    r = r
    a = a
    b = b
    c = c
    Procs = {r, a, b}
    Root = r
    Sems = {1}
    InitValue <- AllMutexes
    Spawners = {r}
    Returning = {a}
    Signallers = {}
    MaxSignals = 0
    Disciplined = TRUE
PROPERTIES ReadyGetsCore ImplementsFairSemaphores
