SPECIFICATION Spec
CONSTANTS
    Requests = {a, b, c}
    Ways = {"stream", "json", "legacy"}
    MaxPast = 1
INVARIANTS
    IndexesAreDense
    AnsweredIsKept
PROPERTIES
    AlwaysReleased
    KeepsContract
CHECK_DEADLOCK FALSE
