SPECIFICATION CallsSpec
CONSTANTS
    OpenAI = {o}
    Anthropic = {a}
    Gemini = {g}
    None = None
    MaxDeltas = 2
    MaxSwitches = 1
INVARIANTS StreamedIsComplete OneProvider
PROPERTY RunIsAnswered
CHECK_DEADLOCK FALSE
