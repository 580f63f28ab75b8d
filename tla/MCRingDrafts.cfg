SPECIFICATION DraftsSpec
CONSTANTS
    Generators = {g1, g2}
    Counter = c
    Main = main
    N = 1
    NrGenerate = 2
    Values = {v1}
    Nought = v1
    NoValue = NoValue
    Verbose = FALSE
    NoThread = NoThread
    NoSem = NoSem
    Threads <- MCThreads
    Sems <- MCSems
    Permits <- MCPermits
PROPERTIES
    Terminates
