SPECIFICATION SummarySpec
CONSTANTS
    KeepRecent = 1
    Trigger = 2
    MaxTurns = 5
INVARIANTS
    SummaryIsPrefix
    ContextComplete
CHECK_DEADLOCK FALSE
