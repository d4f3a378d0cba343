CONSTANTS
    NUav = 2
    Verifier = {}
    MaxRetry = 1
    MaxFaults = 1
    TM = 2
    ID = {a, b, head, q}
    Draw <- RestartDraws
    HeadId = head
    ZeroId = q
    ParamDraws <- FineDraws
    MaxUavStarts = 2
    idA = a
    idB = b
SPECIFICATION Spec
INVARIANTS KeyMatchesId OneSharePerPort
CHECK_DEADLOCK FALSE
