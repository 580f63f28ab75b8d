SPECIFICATION Spec
CONSTANTS
    Pids <- TwoPids
    ScriptVpns <- TwoPages
    NrPageframes = 2
    NrPtesPerPage = 2
    UintMax <- MCUintMax
PROPERTIES
    HandledFaultUnshares
CHECK_DEADLOCK FALSE
