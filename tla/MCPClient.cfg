SPECIFICATION Spec
CONSTANTS
    Calls = {a, b}
    Runtimes = {1, 2, 3}
    MaxPending = 1
    MaxRetries = 1
INVARIANTS
    NoOrphanWorker
    NoLostCommand
    EndedIsStopped
PROPERTIES
    EveryCallEnds
CHECK_DEADLOCK FALSE
