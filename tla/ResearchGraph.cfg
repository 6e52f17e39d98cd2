SPECIFICATION Spec
CONSTANTS
    Chunks = {c1, c2}
    Sources = {s1, s2}
    PageSize = 1
    MaxCorrections = 1
    MaxMarker = 2
    MaxTurns = 2
INVARIANTS CitationsResolve OnlyThisTurn SummaryIsCited EmptyOnlyAfterCorrections
PROPERTIES PriorEvidenceKept TurnEnds
CHECK_DEADLOCK FALSE
