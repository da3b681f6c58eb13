SPECIFICATION ShareSpec
CONSTANTS
    NonceDigits = 64
    ExtraDigits = 8
    MinDigits = 8
    Inserts = 8
    BitLen = 21
    BytePad = 1
    NumIndices = 8
    Submissions <- MCSubmissions
CHECK_DEADLOCK FALSE
INVARIANTS
    ShareTypeOK
    BlockIsWhatWasSolved
    EveryConventionUnderstood
    IndicesAsPacked
    VerifierRunsBounded
