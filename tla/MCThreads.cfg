SPECIFICATION MutexSpec
CONSTANTS
    t1 = t1
    t2 = t2
    c1 = c1
    c2 = c2
    None = None
    Thread <- MCThread
    AppThread <- MCAppThread
    Channel <- MCChannel
    Lock <- ProcessLock
    Routine <- ProcessRoutine
    Prog <- MCProg
    mayRun <- MCMayRun
    rank <- ProcessRank
SYMMETRY MCSymmetry
INVARIANTS
    Exclusive
    NoDeadlock
    RacesOnlyOn
