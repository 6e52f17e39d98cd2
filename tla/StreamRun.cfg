SPECIFICATION Spec
CONSTANTS
    ActivityEvents = TRUE
    MaxEvents = 2
    MaxAborts = 2
INVARIANTS
    DoneMeansSaved
    CommitOrCompensate
    NoticedSaveIsAwaited
    MemoryOnlyAfterSuccess
PROPERTIES
    SettledAfterEnd
    RunEnds
CHECK_DEADLOCK FALSE
