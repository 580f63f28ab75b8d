SPECIFICATION RBSpec
CONSTANTS
    Generators = {g1}
    Counter = c
    Main = main
    N = 2
    NrGenerate = 2
    Values = {v1}
    NoValue = NoValue
    Verbose = TRUE
    NoThread = NoThread
    NoSem = NoSem
    Threads <- MCThreads
    Sems <- MCSems
    Permits <- MCPermits
INVARIANTS
    NeverFaults
