SPECIFICATION Spec
CONSTANTS
    ActivityEvents = TRUE
    MaxEvents = 1
    MaxAborts = 0
INVARIANT NoTurnWithoutSuccess
CHECK_DEADLOCK FALSE
