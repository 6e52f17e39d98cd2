SPECIFICATION Spec
CONSTANTS
    Books <- MCBooks
    Size = 6
    Overlap = 2
    Least = 2
    Window = 3
    Skip = 1
    PlainSize = 3
    PlainOverlap = 1
    MaxFront = 2
    HeadLines = 2
    Names = {"none", "I", "II", "I.1", "I.2", "II.1"}
    Batch = 2
INVARIANTS NothingLost SourcesAreTrue Acceptable FrontMatterBounded
CHECK_DEADLOCK FALSE
