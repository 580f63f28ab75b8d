SPECIFICATION HelpersSpec
CONSTANTS
    BufLen = 7
    NrTokens = 2
    Files <- MCFiles
    MaxTokens = 2
    Commands <- MCCommands
    Programs = {"pa1", "pa2", "pa4"}
    Invocations <- MCInvocations
    Heads = {"readyqueue", "waitqueue"}
    Entries = {p1, p2, p3}
    Poison = poison
    Pids <- MCPids
    ScriptVpns <- MCVpns
    NrPageframes = 2
    NrPtesPerPage = 2
    UintMax = 15
    Lines <- MCLines
    Versions = {"pa4", "try_alloc", "alloc", "try_switch", "try_switch-ing", "Switch", "try_handler"}
CONSTRAINT FewLive
VIEW Memory
INVARIANTS
    FilesAreSplit
    WordsAreCut
    ScriptsAreLoaded
    RingsAreWhole
    WalksVisitAll
    VersionsIsolate
PROPERTIES
    QueuesSpec
CHECK_DEADLOCK FALSE
