SPECIFICATION RBSpec
CONSTANTS
    Generators = {g1, g2}
    Counter = c
    Main = main
    N = 2
    NrGenerate = 2
    Values = {v1, v2}
    NoValue = NoValue
    Verbose = FALSE
    NoThread = NoThread
    NoSem = NoSem
    Threads <- MCThreads
    Sems <- MCSems
    Permits <- MCPermits
SYMMETRY MCSymmetry
INVARIANTS
    SlotsAreConserved
    ResultsMatch
PROPERTIES
    QueueSpec
