SPECIFICATION Spec
CONSTANTS
    MinDifficulty = 2
    MaxDifficulty = 5
    InitialDifficulty = 4
    Grace = 2
    RetargetTime = 2
    IdleTime = 2
    MinSamples = 2
    MaxShare = 3
    MaxChunk = 2
INVARIANTS
    InFlightSharesPass
