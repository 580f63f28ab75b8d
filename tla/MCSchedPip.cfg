SPECIFICATION DraftSpec
CONSTANTS
    NrProcesses = 3
    Resources = {"a", "b"}
    Cases <- PipCases
INVARIANTS
    NoInversion
CHECK_DEADLOCK FALSE
