SPECIFICATION DraftsSpec
CONSTANTS
    NrTesters = 3
    DraftTesters = 2
    Main = main
    Testlock = testlock
    LockTypes = {"spinlock", "mutex"}
    NrRounds = 2
    Punctual = TRUE
    NoThread = NoThread
    NoSem = NoSem
    Threads <- MCThreads
    Sems <- MCSems
    Permits <- MCPermits
INVARIANTS
    WorkingLocksPass
PROPERTIES
    WorkingLocksAreJudged
