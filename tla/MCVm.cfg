SPECIFICATION Spec
CONSTANTS
    Pids <- TwoPids
    ScriptVpns <- TwoPages
    NrPageframes = 2
    NrPtesPerPage = 2
    UintMax <- MCUintMax
INVARIANTS
    IInv
    MapcountsAreExact
PROPERTIES
    SpacesSpec
CHECK_DEADLOCK FALSE
