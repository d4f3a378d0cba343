CONSTANTS
    NUav = 2
    Verifier = {v1, v2}
    MaxRetry = 0
    MaxFaults = 0
    TM = 2
    ID = {a, b, head, q}
    Draw <- DistinctDraws
    HeadId = head
    ZeroId = q
    ParamDraws <- DegenerateDraws
    MaxUavStarts = 1
    idA = a
    idB = b
SPECIFICATION CalmSpec
INVARIANTS OwnSigma
PROPERTIES EventuallyAccepted
CHECK_DEADLOCK FALSE
