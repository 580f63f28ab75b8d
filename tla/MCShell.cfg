SPECIFICATION DraftsSpec
CONSTANTS
    Scripts <- MCScripts
INVARIANTS
    AlarmsAreSafe
    NobodyIsLeft
PROPERTIES
    NoGhostInput
    CommandsEnd
CHECK_DEADLOCK FALSE
