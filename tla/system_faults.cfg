CONSTANTS
    NUav = 2
    Verifier = {v1}
    MaxRetry = 1
    MaxFaults = 1
    TM = 2
    ID = {a, b, head, q}
    Draw <- DistinctDraws
    HeadId = head
    ZeroId = q
    ParamDraws <- FineDraws
    MaxUavStarts = 1
    idA = a
    idB = b
SPECIFICATION Spec
INVARIANTS TypeOK AcceptedByThreshold RejectionExplained
PROPERTIES RegisteredServersSurvive ImplementsService
CHECK_DEADLOCK FALSE
