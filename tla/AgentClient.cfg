SPECIFICATION Spec
CONSTANTS
    Calls = {c1, c2}
    Keys = {k1, k2}
    NoKey = NoKey
    None = None
    MaxWire = 1
SYMMETRY Symmetry
INVARIANTS CompletedIsStored ConversationsApart SettledUnlocks
