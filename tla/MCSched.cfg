SPECIFICATION DraftSpec
CONSTANTS
    NrProcesses = 3
    Resources = {"a", "b"}
    Cases <- MCCases
INVARIANTS
    SoundScriptsSurvive
    DoomedScriptsCrash
    NoLostWakeup
    OnlyTrySjfForgets
    RunsToCompletion
    EqualsShareTicks
    NoSimpleInversion
    OnlyPreemptionBlocks
PROPERTIES
    SoundScriptsEnd
    TimeshareSpec
CHECK_DEADLOCK FALSE
