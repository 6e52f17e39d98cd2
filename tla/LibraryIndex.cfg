SPECIFICATION Spec
CONSTANTS
    Pdfs = {pdf}
    Texts = {txt}
    Profiles = {p1}
    Env = p1
    Jobs = {j1, j2}
    MaxPages = 2
    MaxInFlight = 2
    MaxEditions = 2
    MaxVersions = 2
SYMMETRY Symmetry
INVARIANTS EditionOfStatus ReadyBeforeActive
PROPERTY PdfKeptByFailures
