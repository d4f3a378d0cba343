\* over Z_7: q - 1 = 2 * 3
CONSTANTS
    q = 7
    Insts <- PairAndTriple
    M = 3
    Factors = {2, 3}
    inc = 3
    Shas <- ShiftHashes
    Shifts = {0, 1, 2}
SPECIFICATION Spec
INVARIANTS TypeOK CorrectSignatureVerifies VerifierNeverLoops PiOverloadsAgree PiInterpolates
CHECK_DEADLOCK FALSE
