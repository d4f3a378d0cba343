CONSTANTS
    NUav = 2
    Verifier = {v1}
    MaxRetry = 0
    MaxFaults = 0
    TM = 2
    ID = {a, b, head, q}
    Draw <- AnyDraws
    HeadId = head
    ZeroId = q
    ParamDraws <- ZeroShareDraws
    MaxUavStarts = 1
    idA = a
    idB = b
SPECIFICATION FairSpec
INVARIANTS AcceptedByThreshold RejectionExplained
PROPERTIES VerifierEnds AggregatorServes
CHECK_DEADLOCK FALSE
