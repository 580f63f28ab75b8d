SPECIFICATION MCSpec
CONSTANTS
    Semaphore1 = m1
    Semaphore2 = m2
    Threads = {t1, t2, t3}
    Sems = {m1, m2}
    NoThread = NoThread
    NoSem = NoSem
    MaxS = 2
    Permits <- MCPermits
SYMMETRY MCSymmetry
INVARIANTS
    IInv
    WakeUpComesOnce
    SignalsWakeSleepers
    GthreadIsInItsFrame
PROPERTY FifoSpec
CHECK_DEADLOCK FALSE
