SPECIFICATION Spec
CONSTANTS
    s1 = s1
    s2 = s2
    x = x
    y = y
    Nothing = Nothing
    Unclear = Unclear
    Subjects = {s1, s2}
    Objects = {x, y}
    Implied = {s2}
    FixedObject = y
    AutoWrite = TRUE
    RelatedLimit = 2
    MaxWrites = 4
    MaxEdits = 1
INVARIANT LastStatementRecalled
PROPERTY OnlyPatchRevives
CHECK_DEADLOCK FALSE
