SPECIFICATION Spec
CONSTANTS
    Blocks = {b1}
    Handlers = {h1}
    Attempts = 1
    Window = 2
    MaxHistory = 1
    Difficulties = {1}
    MaxShares = 2
    MaxCandidates = 1
PROPERTIES
    ShareCountSurvives
