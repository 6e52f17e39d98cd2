SPECIFICATION RetrievalSpec
CONSTANTS
    Pdfs = {pdf}
    Texts = {txt}
    Profiles = {p1}
    Env = env
    Jobs = {j1}
    MaxPages = 1
    MaxInFlight = 1
    MaxEditions = 2
    MaxVersions = 1
    Scopes = {{}, {pdf}, {txt}, {pdf, txt}}
    ExactLimit = 1
    Hybrid = TRUE
    Encoder = TRUE
SYMMETRY Symmetry
INVARIANTS FoundWasVisible OwnSpace RefusalIsTrue
CHECK_DEADLOCK FALSE
