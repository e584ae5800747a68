SPECIFICATION Spec
CONSTANTS
    r = r
    a = a
    b = b
    c = c
    Procs = {r, a, b, c}
    Root = r
    Sems = {1, 2}
    InitValue <- AllMutexes
    Spawners = {r}
    Returning = {a, b, c}
    Signallers = {}
    MaxSignals = 0
    Disciplined = TRUE
INVARIANTS TypeOK NoLostWakeup Conservation SchedulerNeverStops OnlyReadyRuns
PROPERTY ImplementsSemaphores
