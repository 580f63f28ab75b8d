SPECIFICATION FairSpec
CONSTANTS
    Threads = {t1, t2, t3}
    Sems = {m1, m2}
    NoThread = NoThread
    NoSem = NoSem
    Permits <- MCPermits
INVARIANTS
    MutualExclusion
PROPERTIES
    QueuedGetsIn
    ReleaseReturns
