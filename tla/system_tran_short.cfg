CONSTANTS
    NUav = 2
    Verifier = {v1}
    MaxRetry = 0
    MaxFaults = 0
    TM = 2
    ID = {a, b, head, q}
    Draw <- DistinctDraws
    HeadId = head
    ZeroId = q
    ParamDraws <- FineDraws
    MaxUavStarts = 1
    idA = a
    idB = b
SPECIFICATION Spec
INVARIANTS TranAuthenticable
CHECK_DEADLOCK FALSE
